---- MODULE Spec2Model ----
(***************************************************************************)
(* Model of the chronological feature engine of cs2-predictor:             *)
(*   src/src/features/elo.py            EloRatingSystem                    *)
(*   src/src/features/team_stats.py     TeamStatsTracker                   *)
(*   src/src/features/build_features.py build_feature_matrix,              *)
(*                                      extract_features                   *)
(*                                                                         *)
(* Representation choices                                                  *)
(*  - A Python str is a sequence of one-character strings, so that         *)
(*    "|".join and str.split act on characters: "a|b" is <<"a","|","b">>.  *)
(*  - A dict is a function whose DOMAIN is the set of keys present; a      *)
(*    defaultdict read with [] inserts the default, a read with .get does  *)
(*    not.                                                                 *)
(*  - None is the empty tuple and an optional number x is <<x>>; a tier is  *)
(*    None, the float NaN <<"nan">>, an int <<"int", n>> or a float with   *)
(*    an integral value <<"float", n>>.                                    *)
(*  - A float that is a quotient of two small integers (a win rate) is the *)
(*    reduced fraction <<n, d>>; Python's correctly rounded division gives *)
(*    equal floats exactly for equal fractions of such integers.           *)
(*  - An Elo rating is a fixed-point integer in 1/100 rating points and an *)
(*    expected score is an integer in 1/10000.                             *)
(*  - A date string "YYYY-MM-DD HH:MM:SS" is <<day, tod>>: the day number  *)
(*    and the time of day.                                                 *)
(***************************************************************************)
EXTENDS Integers, Sequences, FiniteSets, TLC

None == <<>>
NaN == <<"nan">>

\* ---------------------------------------------------------------- bounds
\* Longest match stream walked by build_feature_matrix.
MaxMatches == 6
\* Most record_match calls of a caller that uses the tracker freely.
MaxRecords == 2
\* Most update calls of a caller that uses the Elo model freely.
MaxUpdates == 2
\* Most matches absorbed before a direct call of extract_features.
MaxWarmup == 2
\* Longest entity name of the head-to-head key runs.
MaxNameLen == 2

\* Most rows of the matches CSV read by load_and_clean_data.
MaxRows == 2

\* Last reading of time.monotonic() of a RateLimiter run, in ticks.
MaxClock == 7
\* Most wait_if_needed calls made on one RateLimiter.
MaxCalls == 4
\* Largest max_retries given to retry_with_backoff.
MaxRetries == 2
\* Most starts of build_match_table on one output file.
MaxRuns == 3
\* The cap on pagination loops, config.MAX_PAGINATION_ITERATIONS, scaled down
\* from 100.
MAX_PAGINATION_ITERATIONS == 3

\* --------------------------------------------------------- Python strings
CharCode(c) ==
  CASE c = "a" -> 97
    [] c = "b" -> 98
    [] c = "c" -> 99
    [] c = "|" -> 124
    [] OTHER -> 0

\* str.__lt__: lexicographic order by code point.
RECURSIVE StrLess(_, _)
StrLess(s, t) ==
  IF t = <<>> THEN FALSE
  ELSE IF s = <<>> THEN TRUE
  ELSE IF CharCode(Head(s)) < CharCode(Head(t)) THEN TRUE
  ELSE IF CharCode(Head(s)) > CharCode(Head(t)) THEN FALSE
  ELSE StrLess(Tail(s), Tail(t))

\* tuple(sorted([x, y])): sorted is stable, so equal names keep their order.
SortedPair(x, y) == IF StrLess(y, x) THEN <<y, x>> ELSE <<x, y>>

\* sep.join(parts) for a tuple of strings.
RECURSIVE StrJoin(_, _)
StrJoin(sep, parts) ==
  IF parts = <<>> THEN <<>>
  ELSE IF Len(parts) = 1 THEN parts[1]
  ELSE parts[1] \o sep \o StrJoin(sep, Tail(parts))

\* s.split(c) for a one-character separator c: the tuple of the segments.
RECURSIVE StrSplit(_, _)
StrSplit(s, c) ==
  IF s = <<>> THEN << <<>> >>
  ELSE LET rest == StrSplit(Tail(s), c) IN
       IF Head(s) = c THEN << <<>> >> \o rest
       ELSE << <<Head(s)>> \o rest[1] >> \o Tail(rest)

\* ------------------------------------------------------------- fractions
RECURSIVE Gcd(_, _)
Gcd(a, b) == IF b = 0 THEN a ELSE Gcd(b, a % b)

Abs(x) == IF x < 0 THEN -x ELSE x

\* The float n / d.
Frac(n, d) == LET g == Gcd(Abs(n), d) IN <<n \div g, d \div g>>

\* The float x - y of two quotients.
FracSub(x, y) == Frac(x[1] * y[2] - y[1] * x[2], x[2] * y[2])

Half == <<1, 2>>
Zero == <<0, 1>>
One == <<1, 1>>

\* Python's `x or 0.5`: the default replaces every falsy x, None and 0.0 alike.
OrHalf(x) == IF x = None \/ x = Zero THEN Half ELSE x

\* ------------------------------------------------------------------ dicts
EmptyDict == [k \in {} |-> None]

\* d[k] = v
Put(d, k, v) == [x \in DOMAIN d \cup {k} |-> IF x = k THEN v ELSE d[x]]

\* d.get(k, default)
Get(d, k, default) == IF k \in DOMAIN d THEN d[k] ELSE default

\* ------------------------------------------------------------ tier labels
DigitChar(n) ==
  CASE n = 0 -> "0" [] n = 1 -> "1" [] n = 2 -> "2" [] n = 3 -> "3"
    [] n = 4 -> "4" [] OTHER -> "9"

\* str(tier) for the tier values a tournament row can hold.
StrTier(tier) ==
  CASE tier = NaN -> <<"n", "a", "n">>
    [] tier = None -> <<"N", "o", "n", "e">>
    [] tier[1] = "int" -> <<DigitChar(tier[2])>>
    [] OTHER -> <<DigitChar(tier[2]), ".", "0">>

\* `tier is not None and not (isinstance(tier, float) and math.isnan(tier))`
TierKnown(tier) == tier # None /\ tier # NaN

\* ----------------------------------------------------- TeamStatsTracker
\* TeamStatsTracker.__init__
NewTracker ==
  [history |-> EmptyDict, tier_history |-> EmptyDict,
   h2h |-> EmptyDict, last_match_date |-> EmptyDict]

\* The date string d1 is not after d2.
DateLeq(d1, d2) == d1[1] < d2[1] \/ (d1[1] = d2[1] /\ d1[2] <= d2[2])

\* An insertion that keeps the list in date order in place of append.
AppendHistByDate(hist, team, entry) ==
  LET h == Get(hist, team, <<>>)
      NotAfter(x) == DateLeq(x[1], entry[1])
      After(x) == ~DateLeq(x[1], entry[1])
  IN Put(hist, team, SelectSeq(h, NotAfter) \o <<entry>> \o SelectSeq(h, After))

\* self.history[team].append(entry) on a defaultdict(list)
AppendHist(hist, team, entry) ==
  Put(hist, team, Append(Get(hist, team, <<>>), entry))

\* self.tier_history[team][label].append(entry) on nested defaultdicts
AppendTier(th, team, label, entry) ==
  LET inner == Get(th, team, EmptyDict) IN
  Put(th, team, Put(inner, label, Append(Get(inner, label, <<>>), entry)))

\* self.h2h[key][winner] += 1 on defaultdict(lambda: defaultdict(int))
BumpH2H(h2h, key, winner) ==
  LET rec == Get(h2h, key, EmptyDict) IN
  Put(h2h, key, Put(rec, winner, Get(rec, winner, 0) + 1))

\* record_match with the h2h counter of the loser bumped as well.
RecordMatchBothH2H(s, team1, team2, team1_win, date_str, tier) ==
  LET t1_won == (team1_win # 0)
      t2_won == ~t1_won
      h1 == AppendHist(s.history, team1, <<date_str, t1_won>>)
      h2 == AppendHist(h1, team2, <<date_str, t2_won>>)
      th == IF tier # None
            THEN AppendTier(
                   AppendTier(s.tier_history, team1, StrTier(tier),
                              <<date_str, t1_won>>),
                   team2, StrTier(tier), <<date_str, t2_won>>)
            ELSE s.tier_history
      h2h_key == SortedPair(team1, team2)
  IN [history |-> h2,
      tier_history |-> th,
      h2h |-> BumpH2H(BumpH2H(s.h2h, h2h_key, team1), h2h_key, team2),
      last_match_date |-> Put(Put(s.last_match_date, team1, date_str),
                              team2, date_str)]

\* record_match without the test `tier is not None`.
RecordMatchTierAlways(s, team1, team2, team1_win, date_str, tier) ==
  LET t1_won == (team1_win # 0)
      t2_won == ~t1_won
      h1 == AppendHist(s.history, team1, <<date_str, t1_won>>)
      h2 == AppendHist(h1, team2, <<date_str, t2_won>>)
      th == AppendTier(
              AppendTier(s.tier_history, team1, StrTier(tier),
                         <<date_str, t1_won>>),
              team2, StrTier(tier), <<date_str, t2_won>>)
      h2h_key == SortedPair(team1, team2)
      winner == IF t1_won THEN team1 ELSE team2
  IN [history |-> h2,
      tier_history |-> th,
      h2h |-> BumpH2H(s.h2h, h2h_key, winner),
      last_match_date |-> Put(Put(s.last_match_date, team1, date_str),
                              team2, date_str)]

\* record_match with the h2h key taken in the order of the call, unsorted.
RecordMatchUnsortedKey(s, team1, team2, team1_win, date_str, tier) ==
  LET t1_won == (team1_win # 0)
      t2_won == ~t1_won
      h1 == AppendHist(s.history, team1, <<date_str, t1_won>>)
      h2 == AppendHist(h1, team2, <<date_str, t2_won>>)
      th == IF tier # None
            THEN AppendTier(
                   AppendTier(s.tier_history, team1, StrTier(tier),
                              <<date_str, t1_won>>),
                   team2, StrTier(tier), <<date_str, t2_won>>)
            ELSE s.tier_history
      h2h_key == <<team1, team2>>
      winner == IF t1_won THEN team1 ELSE team2
  IN [history |-> h2,
      tier_history |-> th,
      h2h |-> BumpH2H(s.h2h, h2h_key, winner),
      last_match_date |-> Put(Put(s.last_match_date, team1, date_str),
                              team2, date_str)]

\* TeamStatsTracker.record_match; team1_win is 0 or 1.
RecordMatch(s, team1, team2, team1_win, date_str, tier) ==
  LET t1_won == (team1_win # 0)
      t2_won == ~t1_won
      h1 == AppendHist(s.history, team1, <<date_str, t1_won>>)
      h2 == AppendHist(h1, team2, <<date_str, t2_won>>)
      th == IF tier # None
            THEN AppendTier(
                   AppendTier(s.tier_history, team1, StrTier(tier),
                              <<date_str, t1_won>>),
                   team2, StrTier(tier), <<date_str, t2_won>>)
            ELSE s.tier_history
      h2h_key == SortedPair(team1, team2)
      winner == IF t1_won THEN team1 ELSE team2
  IN [history |-> h2,
      tier_history |-> th,
      h2h |-> BumpH2H(s.h2h, h2h_key, winner),
      last_match_date |-> Put(Put(s.last_match_date, team1, date_str),
                              team2, date_str)]

\* sum(1 for _, won in hist if won)
RECURSIVE CountWins(_)
CountWins(hist) ==
  IF hist = <<>> THEN 0
  ELSE (IF Head(hist)[2] THEN 1 ELSE 0) + CountWins(Tail(hist))

\* hist[:n], the oldest n entries.
FirstN(hist, n) ==
  IF Len(hist) <= n THEN hist ELSE SubSeq(hist, 1, n)

\* hist[-n:] for n > 0
LastN(hist, n) ==
  IF Len(hist) <= n THEN hist ELSE SubSeq(hist, Len(hist) - n + 1, Len(hist))

\* TeamStatsTracker.get_win_rate; last_n is None or <<n>>.
GetWinRate(s, team, last_n) ==
  LET hist == Get(s.history, team, <<>>) IN
  IF hist = <<>> THEN None
  ELSE LET h == IF last_n # None THEN LastN(hist, last_n[1]) ELSE hist
       IN Frac(CountWins(h), Len(h))

\* TeamStatsTracker.get_recent_form
GetRecentForm(s, team, last_n) == GetWinRate(s, team, <<last_n>>)

\* The loop of get_win_streak without its break: every entry equal to
\* last_result is counted.
RECURSIVE StreakLenNoBreak(_, _)
StreakLenNoBreak(hist, last_result) ==
  IF hist = <<>> THEN 0
  ELSE (IF hist[Len(hist)][2] = last_result THEN 1 ELSE 0)
       + StreakLenNoBreak(SubSeq(hist, 1, Len(hist) - 1), last_result)

\* The loop of get_win_streak: entries, newest first, equal to last_result.
RECURSIVE StreakLen(_, _)
StreakLen(hist, last_result) ==
  IF hist = <<>> THEN 0
  ELSE IF hist[Len(hist)][2] = last_result
       THEN 1 + StreakLen(SubSeq(hist, 1, Len(hist) - 1), last_result)
       ELSE 0

\* TeamStatsTracker.get_win_streak
GetWinStreak(s, team) ==
  LET hist == Get(s.history, team, <<>>) IN
  IF hist = <<>> THEN 0
  ELSE LET last_result == hist[Len(hist)][2]
           streak == StreakLen(hist, last_result)
       IN IF last_result THEN streak ELSE -streak

\* sum(record.values())
RECURSIVE SumValues(_, _)
SumValues(rec, keys) ==
  IF keys = {} THEN 0
  ELSE LET k == CHOOSE x \in keys : TRUE
       IN rec[k] + SumValues(rec, keys \ {k})

\* get_h2h_win_rate with the key taken in the order of the query, unsorted.
GetH2HWinRateUnsorted(s, team, opponent) ==
  LET h2h_key == <<team, opponent>>
      record == Get(s.h2h, h2h_key, EmptyDict)
      total == SumValues(record, DOMAIN record)
  IN IF DOMAIN record = {} THEN None
     ELSE IF total = 0 THEN None
     ELSE Frac(Get(record, team, 0), total)

\* TeamStatsTracker.get_h2h_win_rate
GetH2HWinRate(s, team, opponent) ==
  LET h2h_key == SortedPair(team, opponent)
      record == Get(s.h2h, h2h_key, EmptyDict)
      total == SumValues(record, DOMAIN record)
  IN IF DOMAIN record = {} THEN None
     ELSE IF total = 0 THEN None
     ELSE Frac(Get(record, team, 0), total)

\* TeamStatsTracker.get_tier_win_rate
GetTierWinRate(s, team, tier) ==
  LET tier_hist == Get(Get(s.tier_history, team, EmptyDict), StrTier(tier), <<>>)
  IN IF tier_hist = <<>> THEN None
     ELSE Frac(CountWins(tier_hist), Len(tier_hist))

\* str(d).replace(" ", "T").split("T")[0]: the date part of a date string.
DatePart(date_str) == date_str[1]

\* get_days_since_last_match on the full date strings: the days of the
\* difference of two datetimes, the time of day included.
GetDaysSinceWithTime(s, team, current_date) ==
  LET last == Get(s.last_match_date, team, None) IN
  IF last = None THEN None
  ELSE <<current_date[1] - last[1]
         - (IF current_date[2] < last[2] THEN 1 ELSE 0)>>

\* TeamStatsTracker.get_days_since_last_match
GetDaysSinceLastMatch(s, team, current_date) ==
  LET last == Get(s.last_match_date, team, None) IN
  IF last = None THEN None
  ELSE <<DatePart(current_date) - DatePart(last)>>

\* TeamStatsTracker.get_total_matches
GetTotalMatches(s, team) == Len(Get(s.history, team, <<>>))

\* "|".join(k)
JoinKey(k) == StrJoin(<<"|">>, k)

\* tuple(key_str.split("|"))
SplitKey(key_str) == StrSplit(key_str, "|")

\* TeamStatsTracker.save: the JSON document written. A JSON array read back
\* as a list is rebuilt as the tuple it was, so entries stay <<date, won>>.
\* The object under "h2h" is keyed by the joined pairs (the team names of the
\* runs below give distinct pairs distinct joins, so no key is written twice).
StatsSave(s) ==
  [history |-> s.history,
   tier_history |-> s.tier_history,
   h2h |-> [key_str \in {JoinKey(k) : k \in DOMAIN s.h2h} |->
              s.h2h[CHOOSE k \in DOMAIN s.h2h : JoinKey(k) = key_str]],
   last_match_date |-> s.last_match_date]

\* TeamStatsTracker.load
StatsLoad(data) ==
  [history |-> data.history,
   tier_history |-> data.tier_history,
   h2h |-> [key \in {SplitKey(ks) : ks \in DOMAIN data.h2h} |->
              data.h2h[CHOOSE ks \in DOMAIN data.h2h : SplitKey(ks) = key]],
   last_match_date |-> data.last_match_date]

\* ------------------------------------------------------- EloRatingSystem
\* Fixed-point scales: ratings in 1/100 point, expected scores in 1/10000.
RatingScale == 100
ScoreScale == 10000

\* EloRatingSystem.__init__(k_factor, default_rating)
NewElo(k_factor, default_rating) ==
  [k_factor |-> k_factor, default_rating |-> default_rating,
   ratings |-> EmptyDict, match_counts |-> EmptyDict]

\* 1 / (1 + 10^(-d/400)) in 1/10000 at d = 0, 50, ..., 400 rating points.
LogisticTable == <<5000, 5715, 6401, 7034, 7597, 8083, 8490, 8823, 9091>>

\* The logistic of a non-negative difference d (in 1/100 point): the table,
\* interpolated linearly between its points and constant beyond the last.
LogisticPos(d) ==
  LET step == 50 * RatingScale
      i == d \div step
      r == d % step
  IN IF i >= Len(LogisticTable) - 1 THEN LogisticTable[Len(LogisticTable)]
     ELSE LogisticTable[i + 1]
          + ((LogisticTable[i + 2] - LogisticTable[i + 1]) * r) \div step

\* EloRatingSystem.expected_score
ExpectedScore(rating_a, rating_b) ==
  IF rating_a >= rating_b THEN LogisticPos(rating_a - rating_b)
  ELSE ScoreScale - LogisticPos(rating_b - rating_a)

\* self.ratings[team] on a defaultdict whose factory gives 0.
RatingOfZeroFactory(e, team) == Get(e.ratings, team, 0)

\* self.ratings[team]: a read of the defaultdict
RatingOf(e, team) == Get(e.ratings, team, e.default_rating)

\* self.match_counts[team]: a read of the defaultdict
CountOf(e, team) == Get(e.match_counts, team, 0)

\* _get_k with the threshold test `<= 30`.
GetKInclusive(e, team) == IF CountOf(e, team) <= 30 THEN 48 ELSE e.k_factor

\* EloRatingSystem._get_k, in rating points
GetK(e, team) == IF CountOf(e, team) < 30 THEN 48 ELSE e.k_factor

\* k * (s - expected) in 1/100 point, rounded toward zero.
Step(k, s, expected) ==
  LET x == k * (s * ScoreScale - expected) * RatingScale
  IN IF x >= 0 THEN x \div ScoreScale ELSE -((-x) \div ScoreScale)

\* update without the increment of team2's match count.
EloUpdateOneCount(e, team1_name, team2_name, team1_win) ==
  LET r1 == RatingOf(e, team1_name)
      r2 == RatingOf(e, team2_name)
      e1 == ExpectedScore(r1, r2)
      e2 == ScoreScale - e1
      s1 == team1_win
      s2 == 1 - s1
      k1 == GetK(e, team1_name)
      k2 == GetK(e, team2_name)
      ratings1 == Put(e.ratings, team1_name, r1 + Step(k1, s1, e1))
      ratings2 == Put(ratings1, team2_name, r2 + Step(k2, s2, e2))
      counts0 == Put(Put(e.match_counts, team1_name, CountOf(e, team1_name)),
                     team2_name, CountOf(e, team2_name))
      counts1 == Put(counts0, team1_name, counts0[team1_name] + 1)
  IN [e EXCEPT !.ratings = ratings2, !.match_counts = counts1]

\* EloRatingSystem.update; team1_win is 0 or 1.
EloUpdate(e, team1_name, team2_name, team1_win) ==
  LET r1 == RatingOf(e, team1_name)
      r2 == RatingOf(e, team2_name)
      e1 == ExpectedScore(r1, r2)
      e2 == ScoreScale - e1
      s1 == team1_win
      s2 == 1 - s1
      k1 == GetK(e, team1_name)
      k2 == GetK(e, team2_name)
      ratings1 == Put(e.ratings, team1_name, r1 + Step(k1, s1, e1))
      ratings2 == Put(ratings1, team2_name, r2 + Step(k2, s2, e2))
      counts0 == Put(Put(e.match_counts, team1_name, CountOf(e, team1_name)),
                     team2_name, CountOf(e, team2_name))
      counts1 == Put(counts0, team1_name, counts0[team1_name] + 1)
      counts2 == Put(counts1, team2_name, counts1[team2_name] + 1)
  IN [e EXCEPT !.ratings = ratings2, !.match_counts = counts2]

\* The state after get_rating(team): the read inserts a missing key.
TouchRating(e, team) ==
  [e EXCEPT !.ratings = Put(e.ratings, team, RatingOf(e, team))]

\* The state after get_match_count(team)
TouchCount(e, team) ==
  [e EXCEPT !.match_counts = Put(e.match_counts, team, CountOf(e, team))]

\* EloRatingSystem.save: the JSON document written.
EloSave(e) ==
  [ratings |-> e.ratings, match_counts |-> e.match_counts,
   k_factor |-> e.k_factor, default_rating |-> e.default_rating]

\* load that builds the model with the constructor's defaults.
EloLoadDefaults(data) ==
  [k_factor |-> 32, default_rating |-> 1500 * RatingScale,
   ratings |-> data.ratings, match_counts |-> data.match_counts]

\* EloRatingSystem.load of a document that holds "ratings" and "match_counts".
EloLoad(data) ==
  [k_factor |-> IF "k_factor" \in DOMAIN data THEN data.k_factor ELSE 32,
   default_rating |-> IF "default_rating" \in DOMAIN data
                      THEN data.default_rating ELSE 1500 * RatingScale,
   ratings |-> data.ratings, match_counts |-> data.match_counts]

\* ------------------------------------------------------ state files read
\* A state file on disk: it exists or not, its text is JSON or not, and data
\* is the parsed document when it is.
\* open(filepath) and json.load(f): the document, or the error raised.
ReadJson(file) ==
  IF ~file.exists THEN [error |-> "FileNotFoundError"]
  ELSE IF ~file.json THEN [error |-> "JSONDecodeError"]
  ELSE [data |-> file.data]

\* EloRatingSystem.load(filepath): the model returned, or the error raised;
\* data["ratings"] and data["match_counts"] raise KeyError when absent.
EloLoadFile(file) ==
  LET r == ReadJson(file) IN
  IF "error" \in DOMAIN r THEN r
  ELSE IF ~({"ratings", "match_counts"} \subseteq DOMAIN r.data)
       THEN [error |-> "KeyError"]
  ELSE [model |-> EloLoad(r.data)]

\* load that reads every map with .get and an empty default.
StatsLoadFileLenient(file) ==
  LET r == ReadJson(file) IN
  IF "error" \in DOMAIN r THEN r
  ELSE [model |->
          StatsLoad([k \in {"history", "tier_history", "h2h",
                            "last_match_date"} |->
                       Get(r.data, k, EmptyDict)])]

\* TeamStatsTracker.load(filepath): the tracker returned, or the error
\* raised; each of the four maps raises KeyError when absent.
StatsLoadFile(file) ==
  LET r == ReadJson(file) IN
  IF "error" \in DOMAIN r THEN r
  ELSE IF ~({"history", "tier_history", "h2h", "last_match_date"}
              \subseteq DOMAIN r.data)
       THEN [error |-> "KeyError"]
  ELSE [model |-> StatsLoad(r.data)]

\* ------------------------------------------------------- build_features
MIN_MATCHES == 5

\* extract_features: the feature dict. log1p is one-to-one, so the feature
\* log_prizepool is kept as the argument pp of log1p(pp).
ExtractFeatures(e, s, team1, team2, date_str, tier, prizepool, t_type) ==
  LET team1_elo == RatingOf(e, team1)
      team2_elo == RatingOf(e, team2)
      team1_wr_all == OrHalf(GetWinRate(s, team1, None))
      team2_wr_all == OrHalf(GetWinRate(s, team2, None))
      team1_form == OrHalf(GetRecentForm(s, team1, 10))
      team2_form == OrHalf(GetRecentForm(s, team2, 10))
      team1_streak == GetWinStreak(s, team1)
      team2_streak == GetWinStreak(s, team2)
  IN [team1_elo |-> team1_elo,
      team2_elo |-> team2_elo,
      elo_diff |-> team1_elo - team2_elo,
      team1_wr_all |-> team1_wr_all,
      team2_wr_all |-> team2_wr_all,
      wr_diff_all |-> FracSub(team1_wr_all, team2_wr_all),
      team1_wr_20 |-> OrHalf(GetWinRate(s, team1, <<20>>)),
      team2_wr_20 |-> OrHalf(GetWinRate(s, team2, <<20>>)),
      team1_wr_50 |-> OrHalf(GetWinRate(s, team1, <<50>>)),
      team2_wr_50 |-> OrHalf(GetWinRate(s, team2, <<50>>)),
      team1_form |-> team1_form,
      team2_form |-> team2_form,
      form_diff |-> FracSub(team1_form, team2_form),
      team1_streak |-> team1_streak,
      team2_streak |-> team2_streak,
      streak_diff |-> team1_streak - team2_streak,
      h2h_wr |-> GetH2HWinRate(s, team1, team2),
      team1_tier_wr |-> IF TierKnown(tier)
                        THEN GetTierWinRate(s, team1, tier) ELSE None,
      team2_tier_wr |-> IF TierKnown(tier)
                        THEN GetTierWinRate(s, team2, tier) ELSE None,
      team1_days_since_last |-> GetDaysSinceLastMatch(s, team1, date_str),
      team2_days_since_last |-> GetDaysSinceLastMatch(s, team2, date_str),
      tier |-> IF TierKnown(tier) THEN <<tier[2]>> ELSE None,
      log_prizepool |-> IF prizepool # None /\ prizepool # NaN
                        THEN prizepool[2] ELSE 0,
      is_online |-> IF t_type = "Online" THEN 1 ELSE 0,
      is_offline |-> IF t_type = "Offline" THEN 1 ELSE 0,
      is_hybrid |-> IF t_type = "Online/Offline" THEN 1 ELSE 0]

\* The Elo model after extract_features: its two get_rating reads.
ExtractElo(e, team1, team2) == TouchRating(TouchRating(e, team1), team2)

\* tournament_info of load_and_clean_data: pagename -> tier, prizepool, type.
\* The tier column holds a NaN, so pandas reads its numbers as floats.
TournamentInfo ==
  [major |-> [tier |-> <<"float", 1>>, prizepool |-> <<"float", 1000>>,
              type |-> "Offline"],
   open |-> [tier |-> NaN, prizepool |-> NaN, type |-> "Online"]]

\* tournament_info.get(tourney_pn, {}).get(field)
TournamentField(pn, field) ==
  IF pn \in DOMAIN TournamentInfo THEN TournamentInfo[pn][field] ELSE None

\* The locals of one loop iteration of build_feature_matrix.
RowContext(b, row) ==
  [team1 |-> row.team1_name,
   team2 |-> row.team2_name,
   team1_win |-> row.team1_win,
   date_str |-> row.date,
   tier |-> TournamentField(row.tournament_pagename, "tier"),
   prizepool |-> TournamentField(row.tournament_pagename, "prizepool"),
   t_type |-> TournamentField(row.tournament_pagename, "type"),
   t1_count |-> GetTotalMatches(b.stats, row.team1_name),
   t2_count |-> GetTotalMatches(b.stats, row.team2_name)]

\* LoopBody with the two models updated before the features are extracted.
LoopBodyLeaky(b, idx, row) ==
  LET c == RowContext(b, row)
      qualifies == c.t1_count >= MIN_MATCHES /\ c.t2_count >= MIN_MATCHES
      elo1 == EloUpdate(b.elo, c.team1, c.team2, c.team1_win)
      stats1 == RecordMatch(b.stats, c.team1, c.team2, c.team1_win,
                            c.date_str, c.tier)
      feat == ExtractFeatures(elo1, stats1, c.team1, c.team2, c.date_str,
                              c.tier, c.prizepool, c.t_type)
              @@ [team1_win |-> c.team1_win, date |-> row.date,
                  match_id |-> idx]
  IN [elo |-> elo1,
      stats |-> stats1,
      features_list |-> IF qualifies THEN Append(b.features_list, feat)
                        ELSE b.features_list,
      skipped_min_matches |-> IF qualifies THEN b.skipped_min_matches
                              ELSE b.skipped_min_matches + 1]

\* LoopBody with the update of the models skipped for a match the gate stops.
LoopBodySkipWarmup(b, idx, row) ==
  LET c == RowContext(b, row)
      qualifies == c.t1_count >= MIN_MATCHES /\ c.t2_count >= MIN_MATCHES
      feat == ExtractFeatures(b.elo, b.stats, c.team1, c.team2, c.date_str,
                              c.tier, c.prizepool, c.t_type)
              @@ [team1_win |-> c.team1_win, date |-> row.date,
                  match_id |-> idx]
  IN IF qualifies
     THEN [elo |-> EloUpdate(b.elo, c.team1, c.team2, c.team1_win),
           stats |-> RecordMatch(b.stats, c.team1, c.team2, c.team1_win,
                                 c.date_str, c.tier),
           features_list |-> Append(b.features_list, feat),
           skipped_min_matches |-> b.skipped_min_matches]
     ELSE [elo |-> b.elo, stats |-> b.stats,
           features_list |-> b.features_list,
           skipped_min_matches |-> b.skipped_min_matches + 1]

\* LoopBody with a gate that lets a match through when either team qualifies.
LoopBodyGateEither(b, idx, row) ==
  LET c == RowContext(b, row)
      qualifies == c.t1_count >= MIN_MATCHES \/ c.t2_count >= MIN_MATCHES
      feat == ExtractFeatures(b.elo, b.stats, c.team1, c.team2, c.date_str,
                              c.tier, c.prizepool, c.t_type)
              @@ [team1_win |-> c.team1_win, date |-> row.date,
                  match_id |-> idx]
  IN [elo |-> EloUpdate(b.elo, c.team1, c.team2, c.team1_win),
      stats |-> RecordMatch(b.stats, c.team1, c.team2, c.team1_win,
                            c.date_str, c.tier),
      features_list |-> IF qualifies THEN Append(b.features_list, feat)
                        ELSE b.features_list,
      skipped_min_matches |-> IF qualifies THEN b.skipped_min_matches
                              ELSE b.skipped_min_matches + 1]

\* One iteration of the loop of build_feature_matrix over the row `row` with
\* index idx: b holds elo, stats and features_list.
LoopBody(b, idx, row) ==
  LET c == RowContext(b, row)
      qualifies == c.t1_count >= MIN_MATCHES /\ c.t2_count >= MIN_MATCHES
      feat == ExtractFeatures(b.elo, b.stats, c.team1, c.team2, c.date_str,
                              c.tier, c.prizepool, c.t_type)
              @@ [team1_win |-> c.team1_win, date |-> row.date,
                  match_id |-> idx]
      elo1 == IF qualifies THEN ExtractElo(b.elo, c.team1, c.team2) ELSE b.elo
  IN [elo |-> EloUpdate(elo1, c.team1, c.team2, c.team1_win),
      stats |-> RecordMatch(b.stats, c.team1, c.team2, c.team1_win,
                            c.date_str, c.tier),
      features_list |-> IF qualifies THEN Append(b.features_list, feat)
                        ELSE b.features_list,
      skipped_min_matches |-> IF qualifies THEN b.skipped_min_matches
                              ELSE b.skipped_min_matches + 1]

\* The fill pass without fill_defaults: only the fillna(0) of the numeric
\* columns.
FillRowZeros(r) ==
  LET fill(col, default) == IF r[col] = None THEN default ELSE r[col]
  IN [r EXCEPT !.h2h_wr = fill("h2h_wr", Zero),
               !.team1_tier_wr = fill("team1_tier_wr", Zero),
               !.team2_tier_wr = fill("team2_tier_wr", Zero),
               !.team1_days_since_last = fill("team1_days_since_last", <<0>>),
               !.team2_days_since_last = fill("team2_days_since_last", <<0>>),
               !.tier = fill("tier", <<0>>)]

\* The fill pass of build_feature_matrix on one row: fill_defaults, then 0
\* for whatever numeric value is still undefined.
FillRow(r) ==
  LET fill(col, default) == IF r[col] = None THEN default ELSE r[col]
  IN [r EXCEPT !.h2h_wr = fill("h2h_wr", Half),
               !.team1_tier_wr = fill("team1_tier_wr", Half),
               !.team2_tier_wr = fill("team2_tier_wr", Half),
               !.team1_days_since_last = fill("team1_days_since_last", <<30>>),
               !.team2_days_since_last = fill("team2_days_since_last", <<30>>),
               !.tier = fill("tier", <<4>>)]

\* ---------------------------------------------------------------- predict
FEATURE_COLS ==
  {"team1_elo", "team2_elo", "elo_diff",
   "team1_wr_all", "team2_wr_all", "wr_diff_all",
   "team1_wr_20", "team2_wr_20", "team1_wr_50", "team2_wr_50",
   "team1_form", "team2_form", "form_diff",
   "team1_streak", "team2_streak", "streak_diff",
   "h2h_wr",
   "team1_tier_wr", "team2_tier_wr",
   "team1_days_since_last", "team2_days_since_last",
   "tier", "log_prizepool", "is_online", "is_offline", "is_hybrid"}

\* Python's `x or 30` for a number of days: None and 0 are falsy.
OrThirty(x) == IF x = None \/ x = <<0>> THEN <<30>> ELSE x

\* predict.build_feature_vector for a tier and a prizepool that are numbers
\* (argparse gives an int and a float); today is datetime.now() as a date.
\* log_prizepool is kept as the argument of log1p, as in ExtractFeatures.
BuildFeatureVector(e, s, team1, team2, today, tier, prizepool, t_type) ==
  LET team1_elo == RatingOf(e, team1)
      team2_elo == RatingOf(e, team2)
      team1_wr_all == OrHalf(GetWinRate(s, team1, None))
      team2_wr_all == OrHalf(GetWinRate(s, team2, None))
      team1_form == OrHalf(GetRecentForm(s, team1, 10))
      team2_form == OrHalf(GetRecentForm(s, team2, 10))
      team1_streak == GetWinStreak(s, team1)
      team2_streak == GetWinStreak(s, team2)
  IN [team1_elo |-> team1_elo,
      team2_elo |-> team2_elo,
      elo_diff |-> team1_elo - team2_elo,
      team1_wr_all |-> team1_wr_all,
      team2_wr_all |-> team2_wr_all,
      wr_diff_all |-> FracSub(team1_wr_all, team2_wr_all),
      team1_wr_20 |-> OrHalf(GetWinRate(s, team1, <<20>>)),
      team2_wr_20 |-> OrHalf(GetWinRate(s, team2, <<20>>)),
      team1_wr_50 |-> OrHalf(GetWinRate(s, team1, <<50>>)),
      team2_wr_50 |-> OrHalf(GetWinRate(s, team2, <<50>>)),
      team1_form |-> team1_form,
      team2_form |-> team2_form,
      form_diff |-> FracSub(team1_form, team2_form),
      team1_streak |-> team1_streak,
      team2_streak |-> team2_streak,
      streak_diff |-> team1_streak - team2_streak,
      h2h_wr |-> OrHalf(GetH2HWinRate(s, team1, team2)),
      team1_tier_wr |-> OrHalf(GetTierWinRate(s, team1, tier)),
      team2_tier_wr |-> OrHalf(GetTierWinRate(s, team2, tier)),
      team1_days_since_last |->
        OrThirty(GetDaysSinceLastMatch(s, team1, today)),
      team2_days_since_last |->
        OrThirty(GetDaysSinceLastMatch(s, team2, today)),
      tier |-> <<tier[2]>>,
      log_prizepool |-> prizepool[2],
      is_online |-> IF t_type = "Online" THEN 1 ELSE 0,
      is_offline |-> IF t_type = "Offline" THEN 1 ELSE 0,
      is_hybrid |-> IF t_type = "Online/Offline" THEN 1 ELSE 0]

\* ------------------------------------------------------------ RateLimiter
\* Readings of time.monotonic() and the durations are whole ticks.

\* MinInterval with the interval of the burst strategy for every strategy.
MinIntervalBurst(max_requests, window_seconds, strategy) == 0

\* self._min_interval, as __init__ computes it.
MinInterval(max_requests, window_seconds, strategy) ==
  IF strategy = "distributed" THEN window_seconds \div max_requests ELSE 0

\* RateLimiter(max_requests, window_seconds, strategy)
NewLimiter(max_requests, window_seconds, strategy) ==
  [max_requests |-> max_requests,
   window_seconds |-> window_seconds,
   strategy |-> strategy,
   _request_times |-> <<>>,
   _min_interval |-> MinInterval(max_requests, window_seconds, strategy),
   _last_request_time |-> 0]

\* while self._request_times and self._request_times[0] < cutoff_time:
\*     self._request_times.popleft()
RECURSIVE PopExpired(_, _)
PopExpired(request_times, cutoff_time) ==
  IF request_times # <<>> /\ request_times[1] < cutoff_time
  THEN PopExpired(Tail(request_times), cutoff_time)
  ELSE request_times

\* The removal of old requests at the reading now.
RemoveOld(rl, now) ==
  [rl EXCEPT !._request_times = PopExpired(@, now - rl.window_seconds)]

\* The sleep the distributed strategy asks for at the reading now; 0 is no
\* sleep.
IntervalWait(rl, now) ==
  IF /\ rl.strategy = "distributed"
     /\ now - rl._last_request_time < rl._min_interval
  THEN rl._min_interval - (now - rl._last_request_time)
  ELSE 0

\* The sleep the window limit asks for at the reading now; 0 or less is no
\* sleep.
WindowWait(rl, now) ==
  IF Len(rl._request_times) >= rl.max_requests
  THEN (rl._request_times[1] + rl.window_seconds) - now
  ELSE 0

\* self._request_times.append(now); self._last_request_time = now
RecordRequest(rl, now) ==
  [rl EXCEPT !._request_times = Append(@, now), !._last_request_time = now]

\* get_stats at the reading now, on a limiter whose old requests are removed.
Stats(rl, now) ==
  [op |-> "get_stats",
   now |-> now,
   requests_in_window |-> Len(rl._request_times),
   max_requests |-> rl.max_requests,
   window_seconds |-> rl.window_seconds,
   strategy |-> rl.strategy,
   time_until_reset |->
     IF rl._request_times # <<>>
     THEN LET left == (rl._request_times[1] + rl.window_seconds) - now
          IN <<IF left > 0 THEN left ELSE 0>>
     ELSE None]

\* A run on one limiter: the object, the clock, the holder of self._lock (0
\* when it is free), where each thread is in wait_if_needed, the calls made
\* and the requests granted, oldest first.
NewRun(rl, threads) ==
  [rl |-> rl,
   clock |-> 0,
   lock |-> 0,
   thread |-> [t \in threads |-> [pc |-> "idle", wake |-> 0]],
   calls |-> 0,
   granted |-> <<>>]

\* The end of wait_if_needed in thread t: the request is recorded at the
\* reading now and the lock is released.
Granted(run, rl, t, now) ==
  [run EXCEPT !.rl = RecordRequest(rl, now),
              !.lock = 0,
              !.thread[t] = [pc |-> "idle", wake |-> 0],
              !.granted = Append(@, [thread |-> t, time |-> now])]

\* wait_if_needed in thread t from the window check on, at the reading now:
\* the thread sleeps with the lock held, or the request is granted.
WindowCheck(run, rl, t, now) ==
  IF WindowWait(rl, now) > 0
  THEN [run EXCEPT !.rl = rl,
                   !.lock = t,
                   !.thread[t] = [pc |-> "window_sleep",
                                  wake |-> now + WindowWait(rl, now)]]
  ELSE Granted(run, rl, t, now)

\* wait_if_needed in thread t from the taking of the lock on.
Enter(run, t) ==
  LET now == run.clock
      rl == RemoveOld(run.rl, now)
  IN IF IntervalWait(rl, now) > 0
     THEN [run EXCEPT !.rl = rl,
                      !.lock = t,
                      !.thread[t] = [pc |-> "interval_sleep",
                                     wake |-> now + IntervalWait(rl, now)]]
     ELSE WindowCheck(run, rl, t, now)

\* The sleep of the distributed strategy is over: now = time.monotonic().
AfterIntervalSleep(run, t) == WindowCheck(run, run.rl, t, run.clock)

\* The sleep of the window limit is over: now = time.monotonic(), the old
\* requests are removed again.
AfterWindowSleep(run, t) ==
  Granted(run, RemoveOld(run.rl, run.clock), t, run.clock)

\* ------------------------------------------------------- retry_with_backoff
DEFAULT_RETRYABLE_STATUS_CODES == {429, 500, 502, 503, 504}
NON_RETRYABLE_STATUS_CODES == {400, 401, 403, 404}
RETRY_BASE_DELAY == 1
RETRY_BACKOFF_FACTOR == 2

\* What one invocation of the wrapped function does: it returns a value, or
\* raises an HTTPError (with a response of some status, or with none), one of
\* the retryable exceptions, or another exception.
Returns(value) == [kind |-> "return", value |-> value, status |-> None]
Raises(kind, status) == [kind |-> kind, value |-> None, status |-> status]
FuncOutcomes ==
  {Returns("x"), Returns("y"),
   Raises("HTTPError", <<503>>), Raises("HTTPError", <<404>>),
   Raises("HTTPError", <<418>>), Raises("HTTPError", None),
   Raises("ConnectionError", None), Raises("Timeout", None),
   Raises("ValueError", None)}
RetryableExceptions == {"ConnectionError", "Timeout", "ChunkedEncodingError"}

\* Retryable with every HTTPError sent on, whatever its status.
RetryableAnyStatus(o) ==
  o.kind = "HTTPError" \/ o.kind \in RetryableExceptions

\* The outcome sends the loop on: an HTTPError with no response or with a
\* listed status, or one of the retryable exceptions.
Retryable(o) ==
  \/ /\ o.kind = "HTTPError"
     /\ \/ o.status = None
        \/ /\ o.status[1] \notin NON_RETRYABLE_STATUS_CODES
           /\ o.status[1] \in DEFAULT_RETRYABLE_STATUS_CODES
  \/ o.kind \in RetryableExceptions

\* Attempts with one attempt more than range(max_retries + 1).
AttemptsOneMore(max_retries) == 0..(max_retries + 1)

\* range(max_retries + 1)
Attempts(max_retries) == 0..(max_retries)

RECURSIVE Power(_, _)
Power(b, n) == IF n = 0 THEN 1 ELSE b * Power(b, n - 1)

\* base_delay * (backoff_factor ** attempt) + random.uniform(0, 1)
Delay(attempt, jitter) ==
  RETRY_BASE_DELAY * Power(RETRY_BACKOFF_FACTOR, attempt) + jitter

\* wrapper(*args, **kwargs) as it starts.
NewWrapperCall(max_retries) ==
  [max_retries |-> max_retries,
   pc |-> "invoke",
   attempt |-> 0,
   invocations |-> 0,
   outcomes |-> <<>>,
   last_exception |-> None,
   delay |-> 0,
   result |-> None,
   raised |-> None]

\* The loop is over: NetworkException if an exception was kept, else the
\* wrapper falls off its end and returns None.
LoopEnd(w) ==
  IF w.last_exception # None
  THEN [w EXCEPT !.pc = "raised", !.raised = <<"NetworkException">>]
  ELSE [w EXCEPT !.pc = "returned"]

\* The loop goes to its next attempt, or is over.
NextAttempt(w) ==
  IF w.attempt + 1 \in Attempts(w.max_retries)
  THEN [w EXCEPT !.pc = "invoke", !.attempt = @ + 1]
  ELSE LoopEnd(w)

\* One pass of the loop body: func is invoked and does o.
Invoke(w, o, jitter) ==
  LET w1 == [w EXCEPT !.invocations = @ + 1, !.outcomes = Append(@, o)]
  IN CASE o.kind = "return" ->
            [w1 EXCEPT !.pc = "returned", !.result = <<o.value>>]
       [] o.kind = "HTTPError" /\ ~Retryable(o) ->
            [w1 EXCEPT !.pc = "raised", !.raised = <<"APIException">>]
       [] Retryable(o) ->
            LET w2 == [w1 EXCEPT !.last_exception = <<o.kind>>]
            IN IF w.attempt < w.max_retries
               THEN [w2 EXCEPT !.pc = "sleep",
                               !.delay = Delay(w.attempt, jitter)]
               ELSE NextAttempt(w2)
       [] OTHER ->
            [w1 EXCEPT !.pc = "raised", !.raised = <<o.kind>>]

\* ------------------------------------------ fetch_matches, fetch_tournaments
\* @retry_with_backoff(max_retries=3, base_delay=1.0)
FETCH_MAX_RETRIES == 3

\* What requests.get, raise_for_status and json do in the body of a fetch
\* function: the page is returned, or an exception of requests or json.
RequestOutcomes ==
  {Returns("x"),
   Raises("HTTPError", <<429>>), Raises("HTTPError", <<503>>),
   Raises("HTTPError", <<404>>),
   Raises("Timeout", None), Raises("ConnectionError", None),
   Raises("JSONDecodeError", None)}

\* The subclasses of requests.exceptions.RequestException among the outcomes.
RequestExceptions ==
  {"Timeout", "ConnectionError", "ChunkedEncodingError", "HTTPError"}

\* The body of fetch_matches and of fetch_tournaments under the decorator:
\* what the except clauses of its try make of what the request did, the
\* first clause that matches.
FetchBody(o) ==
  CASE o.kind = "return" -> o
    [] o.kind = "Timeout" -> Raises("NetworkException", None)
    [] o.kind = "HTTPError" -> o
    [] o.kind = "JSONDecodeError" -> Raises("APIException", None)
    [] o.kind \in RequestExceptions -> Raises("NetworkException", None)
    [] OTHER -> o

\* ---------------------------------------------------------- normalize_match
\* Values of the API's JSON: None, a string, an integer.
StrVal(s) == <<"str", s>>
IntVal(n) == <<"int", n>>

\* bool(v)
Truthy(v) == v # None /\ v # StrVal("") /\ v # IntVal(0)

\* PyOr with the first operand that is not None instead of the first truthy.
PyOrPresent(a, b) == IF a # None THEN a ELSE b

\* a or b
PyOr(a, b) == IF Truthy(a) THEN a ELSE b

\* str(v)
PyStr(v) ==
  CASE v = None -> "None"
    [] v[1] = "str" -> v[2]
    [] OTHER -> DigitChar(v[2])

\* int(v) of a value that is not None: <<n>>, or None for ValueError.
PyInt(v) ==
  IF v[1] = "int" THEN <<v[2]>>
  ELSE IF \E n \in 0..4 : DigitChar(n) = v[2]
       THEN <<CHOOSE n \in 0..4 : DigitChar(n) = v[2]>>
       ELSE None

\* datetime.strptime(date_str, "%Y-%m-%d") succeeds, or with the time added.
DateFormats == {"2024-01-15", "2024-01-15 18:30:00"}

\* safe_get_opponent(opponents, index), index from 0.
NoOpponent == [dict |-> TRUE, id |-> None, name |-> None, template |-> None,
               score |-> None]
SafeGetOpponent(opponents, index) ==
  IF ~opponents.list \/ opponents.items = <<>> THEN NoOpponent
  ELSE IF index < 0 \/ index >= Len(opponents.items) THEN NoOpponent
  ELSE opponents.items[index + 1]

\* validate_match_data(match): the set of the errors reported.
ValidateMatchData(m) ==
  LET opponents == m.match2opponents
      first2 == IF opponents.list
                THEN {i \in 1..2 : i <= Len(opponents.items)} ELSE {}
  IN {e \in {"identifier"} :
        ~Truthy(m.match_id) /\ ~Truthy(m.match2id) /\ ~Truthy(m.id)}
     \cup {e \in {"not a list"} : ~opponents.list}
     \cup {e \in {"insufficient"} :
             opponents.list /\ Len(opponents.items) < 2}
     \cup {e \in {"not a dictionary"} :
             /\ opponents.list /\ Len(opponents.items) >= 2
             /\ \E i \in 1..2 : ~opponents.items[i].dict}
     \cup {e \in {"name/template"} :
             /\ opponents.list /\ Len(opponents.items) >= 2
             /\ \E i \in 1..2 :
                  /\ opponents.items[i].dict
                  /\ ~Truthy(opponents.items[i].name)
                  /\ ~Truthy(opponents.items[i].template)}
     \cup {e \in {"winner"} :
             /\ m.winner # None
             /\ \/ PyInt(m.winner) = None
                \/ PyInt(m.winner)[1] \notin {0, 1, 2}}
     \cup {e \in {"date"} :
             Truthy(m.date) /\ PyStr(m.date) \notin DateFormats}
     \cup {e \in {"score"} :
             \E i \in first2 :
               /\ opponents.items[i].dict
               /\ opponents.items[i].score # None
               /\ opponents.items[i].score # StrVal("")
               /\ PyInt(opponents.items[i].score) = None}

\* normalize_match(m): the record, or None.
NormalizeMatch(m) ==
  IF ValidateMatchData(m) # {} THEN None
  ELSE LET team1 == SafeGetOpponent(m.match2opponents, 0)
           team2 == SafeGetOpponent(m.match2opponents, 1)
           winner_id == m.winner
           match_id == PyOr(PyOr(m.match2id, m.id), m.match_id)
       IN IF match_id = None THEN None
          ELSE [match_id |-> match_id,
                tournament_pagename |-> m.parent,
                date |-> m.date,
                bestof |-> IF m.extradata # None THEN m.extradata.bestof
                           ELSE None,
                team1_id |-> team1.id,
                team1_name |-> team1.name,
                team1_score |-> team1.score,
                team2_id |-> team2.id,
                team2_name |-> team2.name,
                team2_score |-> team2.score,
                winner_id |-> winner_id,
                team1_win |->
                  IF PyStr(team1.id) = PyStr(winner_id) THEN 1 ELSE 0,
                team2_win |->
                  IF PyStr(team2.id) = PyStr(winner_id) THEN 1 ELSE 0]

\* ------------------------------------------------ fetch_all_cs2_tournaments
\* limit, the size of a full page, scaled down from 1000.
PageLimit == 2

\* tournament.get("pagename") or tournament.get("tournament")
TournamentId(tournament) == PyOr(tournament.pagename, tournament.tournament)

\* The loop `for tournament in tournaments` over a page, on the record p of
\* the locals; new_tournaments counts within the page.
RECURSIVE TrackPage(_, _)
TrackPage(p, tournaments) ==
  IF tournaments = <<>> THEN p
  ELSE LET tournament == Head(tournaments)
           tournament_id == TournamentId(tournament)
       IN IF Truthy(tournament_id)
             /\ tournament_id \notin p.seen_tournament_ids
          THEN TrackPage(
                 [p EXCEPT !.seen_tournament_ids = @ \cup {tournament_id},
                           !.all_tournaments = Append(@, tournament),
                           !.new_tournaments = @ + 1],
                 Tail(tournaments))
          ELSE TrackPage(p, Tail(tournaments))

\* The locals of fetch_all_cs2_tournaments before the loop.
NewPagination ==
  [pc |-> "while",
   all_tournaments |-> <<>>,
   seen_tournament_ids |-> {},
   offset |-> 0,
   iteration |-> 0,
   new_tournaments |-> 0,
   ended_by |-> "",
   raised |-> None,
   result |-> None]

\* One pass of the while loop whose fetch_tournaments call returned the page
\* tournaments.
PageFetched(p, tournaments) ==
  LET p1 == [p EXCEPT !.iteration = @ + 1]
  IN IF tournaments = <<>>
     THEN [p1 EXCEPT !.pc = "after", !.ended_by = "empty page"]
     ELSE LET p2 == TrackPage([p1 EXCEPT !.new_tournaments = 0], tournaments)
          IN IF Len(tournaments) < PageLimit
             THEN [p2 EXCEPT !.pc = "after", !.ended_by = "short page"]
             ELSE IF p2.new_tournaments = 0
             THEN [p2 EXCEPT !.pc = "after", !.ended_by = "all duplicates"]
             ELSE [p2 EXCEPT !.offset = @ + PageLimit]

\* One pass of the while loop whose fetch_tournaments call raised exception
\* (APIException or NetworkException): it is raised again.
PageFailed(p, exception) ==
  [p EXCEPT !.iteration = @ + 1, !.pc = "raised", !.raised = <<exception>>]

\* The loop condition is false: the loop is left.
LoopExhausted(p) == [p EXCEPT !.pc = "after", !.ended_by = "iterations"]

\* The statements after the loop.
AfterLoop(p) ==
  IF p.iteration >= MAX_PAGINATION_ITERATIONS
  THEN [p EXCEPT !.pc = "raised", !.raised = <<"PaginationException">>]
  ELSE [p EXCEPT !.pc = "returned", !.result = p.all_tournaments]

\* ------------------------------------------------------- build_match_table
\* The output file is the sequence of its rows; no file, an empty file and a
\* file read_csv cannot parse all make load_existing_matches start fresh, and
\* are the empty sequence. A row is [match_id, tournament_pagename], a
\* pagename a sequence of characters and a missing one None.

\* set(df_existing["tournament_pagename"].dropna().unique())
ProcessedTournaments(df_existing) ==
  {df_existing[i].tournament_pagename : i \in DOMAIN df_existing} \ {None}

\* [t for t in all_tournaments_with_pagename if t not in processed_tournaments]
RECURSIVE NotIn(_, _)
NotIn(pagenames, processed_tournaments) ==
  IF pagenames = <<>> THEN <<>>
  ELSE IF Head(pagenames) \in processed_tournaments
       THEN NotIn(Tail(pagenames), processed_tournaments)
       ELSE <<Head(pagenames)>> \o NotIn(Tail(pagenames), processed_tournaments)

\* build_match_table up to the loop, on the tournaments file and the output
\* file found.
StartRun(run, pagenames) ==
  LET df_existing == run.file
      tournaments_to_process ==
        NotIn(pagenames, ProcessedTournaments(df_existing))
  IN [run EXCEPT !.pc = IF tournaments_to_process = <<>>
                        THEN "returned" ELSE "loop",
                 !.runs = @ + 1,
                 !.all_matches_list = df_existing,
                 !.tournaments_to_process = tournaments_to_process,
                 !.i = 1]

\* The rows normalize_match gives for the raw matches of a tournament: None
\* results are left out.
RECURSIVE ParsedRows(_)
ParsedRows(raw_matches) ==
  IF raw_matches = <<>> THEN <<>>
  ELSE IF Head(raw_matches).valid
       THEN <<[match_id |-> Head(raw_matches).match_id,
               tournament_pagename |-> Head(raw_matches).parent]>>
              \o ParsedRows(Tail(raw_matches))
       ELSE ParsedRows(Tail(raw_matches))

\* One pass of the loop over tournaments_to_process, the checkpoint written
\* whole.
ProcessTournament(run, raw_matches) ==
  LET pagename == run.tournaments_to_process[run.i]
      all_matches_list == run.all_matches_list \o ParsedRows(raw_matches)
  IN [run EXCEPT !.all_matches_list = all_matches_list,
                 !.file = IF raw_matches # <<>> THEN all_matches_list ELSE @,
                 !.fetched = Append(@, [pagename |-> pagename,
                                        file |-> run.file,
                                        saved |-> raw_matches # <<>>]),
                 !.i = @ + 1]

\* What an interrupted to_csv can leave of the rows: the first n rows, and
\* of the next row nothing or its first field only, which read_csv reads
\* back as a row with the other fields missing.
Truncations(rows) ==
  {SubSeq(rows, 1, n) : n \in 0..(Len(rows) - 1)}
  \cup {Append(SubSeq(rows, 1, n),
               [match_id |-> rows[n + 1].match_id,
                tournament_pagename |-> None]) : n \in 0..(Len(rows) - 1)}

\* The statements after the loop: ValueError, or the final table is saved.
Finalize(run) ==
  IF run.all_matches_list = <<>>
  THEN [run EXCEPT !.pc = "raised"]
  ELSE [run EXCEPT !.pc = "returned", !.file = run.all_matches_list]

\* ------------------------------------------------------------------ state
VARIABLES
  pc,                  \* where the run is
  elo,                 \* the EloRatingSystem
  stats,               \* the TeamStatsTracker
  matches,             \* the matches absorbed so far, oldest first (in
                       \* build_feature_matrix: the rows of df_matches walked)
  features_list,       \* build_feature_matrix: the rows extracted so far
  skipped_min_matches, \* build_feature_matrix: matches stopped by the gate
  df_features,         \* the feature matrix after the fill pass
  elo_file,            \* content of data/models/elo_ratings.json
  stats_file,          \* content of data/models/team_stats.json
  elo2,                \* the model returned by EloRatingSystem.load
  stats2,              \* the tracker returned by TeamStatsTracker.load
  call,                \* the last call made from outside and what it returned
  limiter,             \* the RateLimiter, the clock and the threads calling it
  retry,               \* one call of a function wrapped by retry_with_backoff
  ingest               \* a run of the ingestion: pagination, or build_match_table

vars == <<pc, elo, stats, matches, features_list, skipped_min_matches,
          df_features, elo_file, stats_file, elo2, stats2, call, limiter,
          retry, ingest>>

A == <<"a">>
B == <<"b">>
\* An entity no match names.
C == <<"c">>

\* ------------------------------------------- build_feature_matrix, a run
\* What a row of the stream can hold as (team1_name, team2_name, team1_win):
\* A beats B, B beats A listed second or first, and a row that lists A on
\* both sides (load_and_clean_data drops no such row).
StreamResults == {<<A, B, 1>>, <<A, B, 0>>, <<B, A, 1>>, <<A, A, 1>>}
StreamTeams == {A, B}

\* The stream is sorted by date: row idx (from 0) is played on day
\* 1 + idx \div 2, and the tournaments take turns: one of the lookup, one the
\* lookup does not hold, one whose tier and prizepool are NaN.
DateOfRow(idx) == <<1 + idx \div 2, 0>>
PagenameOfRow(idx) ==
  CASE idx % 3 = 0 -> "major"
    [] idx % 3 = 1 -> "qualifier"
    [] OTHER -> "open"

BuildInit ==
  /\ pc = "loop"
  /\ ingest = None
  /\ limiter = None
  /\ retry = None
  /\ elo = NewElo(32, 1500 * RatingScale)
  /\ stats = NewTracker
  /\ matches = <<>>
  /\ features_list = <<>>
  /\ skipped_min_matches = 0
  /\ df_features = None
  /\ elo_file = None
  /\ stats_file = None
  /\ elo2 = None
  /\ stats2 = None
  /\ call = None

\* The loop of build_feature_matrix takes the next row of df_matches.
NextRow ==
  /\ pc = "loop"
  /\ Len(matches) < MaxMatches
  /\ \E res \in StreamResults :
       LET idx == Len(matches)
           row == [team1_name |-> res[1], team2_name |-> res[2],
                   team1_win |-> res[3], date |-> DateOfRow(idx),
                   tournament_pagename |-> PagenameOfRow(idx)]
           b == LoopBody([elo |-> elo, stats |-> stats,
                          features_list |-> features_list,
                          skipped_min_matches |-> skipped_min_matches],
                         idx, row)
       IN /\ matches' = Append(matches, row)
          /\ elo' = b.elo
          /\ stats' = b.stats
          /\ features_list' = b.features_list
          /\ skipped_min_matches' = b.skipped_min_matches
  /\ UNCHANGED <<pc, df_features, elo_file, stats_file, elo2, stats2, call,
                 limiter, retry, ingest>>

\* The stream is exhausted with no row extracted: ValueError, nothing saved.
NoFeatures ==
  /\ pc = "loop"
  /\ features_list = <<>>
  /\ pc' = "error"
  /\ UNCHANGED <<elo, stats, matches, features_list, skipped_min_matches,
                 df_features, elo_file, stats_file, elo2, stats2, call,
                 limiter, retry, ingest>>

\* The stream is exhausted: fill pass, then both models are saved.
FillAndSave ==
  /\ pc = "loop"
  /\ features_list # <<>>
  /\ pc' = "done"
  /\ df_features' = [i \in 1..Len(features_list) |-> FillRow(features_list[i])]
  /\ elo_file' = EloSave(elo)
  /\ stats_file' = StatsSave(stats)
  /\ UNCHANGED <<elo, stats, matches, features_list, skipped_min_matches,
                 elo2, stats2, call,
                 limiter, retry, ingest>>

BuildNext == NextRow \/ NoFeatures \/ FillAndSave

Spec == BuildInit /\ [][BuildNext]_vars

\* ----------------------------------------------- build_feature_matrix: claims
\* The two models after update and record_match took each of `rows` in turn,
\* starting from empty models.
RECURSIVE Absorbed(_)
Absorbed(rows) ==
  IF rows = <<>>
  THEN [elo |-> NewElo(32, 1500 * RatingScale), stats |-> NewTracker]
  ELSE LET p == Absorbed(SubSeq(rows, 1, Len(rows) - 1))
           m == rows[Len(rows)]
       IN [elo |-> EloUpdate(p.elo, m.team1_name, m.team2_name, m.team1_win),
           stats |-> RecordMatch(p.stats, m.team1_name, m.team2_name,
                                 m.team1_win, m.date,
                                 TournamentField(m.tournament_pagename, "tier"))]

\* The models as they were before the row with index idx (from 0).
PreState(idx) == Absorbed(SubSeq(matches, 1, idx))

\* The row of the stream with index idx (from 0).
RowAt(idx) == matches[idx + 1]

\* extract_features on the models mdl for the row m.
FeaturesOn(mdl, m) ==
  ExtractFeatures(mdl.elo, mdl.stats, m.team1_name, m.team2_name, m.date,
                  TournamentField(m.tournament_pagename, "tier"),
                  TournamentField(m.tournament_pagename, "prizepool"),
                  TournamentField(m.tournament_pagename, "type"))

ModelFeatures ==
  {"team1_elo", "team2_elo", "elo_diff",
   "team1_wr_all", "team2_wr_all", "wr_diff_all",
   "team1_wr_20", "team2_wr_20", "team1_wr_50", "team2_wr_50",
   "team1_form", "team2_form", "form_diff",
   "team1_streak", "team2_streak", "streak_diff", "h2h_wr",
   "team1_tier_wr", "team2_tier_wr",
   "team1_days_since_last", "team2_days_since_last"}

\* C1: every feature row holds, for each model-derived feature, the value
\* extract_features gives on the Elo and tracker state reached by absorbing
\* exactly the rows before its match; neither that match's outcome nor a later
\* match changes the row.
C1_NoLeakage ==
  \A i \in 1..Len(features_list) :
    LET r == features_list[i]
        f == FeaturesOn(PreState(r.match_id), RowAt(r.match_id))
    IN \A k \in ModelFeatures : r[k] = f[k]

\* C1 witness: a row was extracted, later matches were absorbed, and the models
\* now give other features for that match than the row holds.
C1_Witness ==
  \E i \in 1..Len(features_list) :
    LET r == features_list[i]
        now == FeaturesOn([elo |-> elo, stats |-> stats], RowAt(r.match_id))
    IN /\ r.match_id + 1 < Len(matches)
       /\ r.team1_elo # now.team1_elo
       /\ r.team1_streak # now.team1_streak

\* The history entries the rows give team t: one per side it is listed on.
RECURSIVE TeamEntries(_, _)
TeamEntries(rows, t) ==
  IF rows = <<>> THEN <<>>
  ELSE LET m == Head(rows)
       IN (IF m.team1_name = t THEN << <<m.date, m.team1_win = 1>> >> ELSE <<>>)
          \o (IF m.team2_name = t THEN << <<m.date, m.team1_win = 0>> >> ELSE <<>>)
          \o TeamEntries(Tail(rows), t)

\* C2: after every loop iteration each team's history holds exactly one entry
\* per side of every row walked so far, gated or not, with the true outcome;
\* the Elo counts and ratings are those of one update per row; and every row
\* went through the gate once.
C2_AbsorbedOnce ==
  /\ \A t \in StreamTeams :
       /\ Get(stats.history, t, <<>>) = TeamEntries(matches, t)
       /\ CountOf(elo, t) = Len(TeamEntries(matches, t))
       /\ RatingOf(elo, t) = RatingOf(Absorbed(matches).elo, t)
  /\ Len(features_list) + skipped_min_matches = Len(matches)

\* C2 witness: matches stopped by the gate and matches that gave a row have
\* both been absorbed.
C2_Witness ==
  /\ skipped_min_matches >= MIN_MATCHES
  /\ Len(features_list) >= 1
  /\ Len(Get(stats.history, B, <<>>)) = Len(matches)

\* The rows before index idx that list team t on either side.
PriorMatches(t, idx) ==
  Cardinality({j \in 1..idx : matches[j].team1_name = t \/ matches[j].team2_name = t})

\* Team t is on both sides of some row before index idx.
MetItselfBefore(t, idx) ==
  \E j \in 1..idx : matches[j].team1_name = t /\ matches[j].team2_name = t

\* The row with index idx gave a feature row.
YieldedRow(idx) ==
  \E i \in 1..Len(features_list) : features_list[i].match_id = idx

\* The iff of C3: a row is extracted exactly for the matches whose two teams
\* both have get_total_matches >= MIN_MATCHES on the state before the match.
GateIff ==
  \A idx \in 0..(Len(matches) - 1) :
    LET pre == PreState(idx).stats
        m == RowAt(idx)
    IN YieldedRow(idx)
         <=> /\ GetTotalMatches(pre, m.team1_name) >= MIN_MATCHES
             /\ GetTotalMatches(pre, m.team2_name) >= MIN_MATCHES

\* C3 as claimed: the iff, and a team's first 5 matches never yield a row while
\* its 6th is eligible on that team's side.
C3_GateByMatchCount ==
  /\ GateIff
  /\ \A idx \in 0..(Len(matches) - 1) :
       \A t \in {RowAt(idx).team1_name, RowAt(idx).team2_name} :
         /\ YieldedRow(idx) => PriorMatches(t, idx) >= MIN_MATCHES
         /\ PriorMatches(t, idx) >= MIN_MATCHES
              => GetTotalMatches(PreState(idx).stats, t) >= MIN_MATCHES

\* C3 amended: the iff holds; get_total_matches counts history entries, of
\* which a row listing a team on both sides adds two, so the first 5 matches
\* never yield a row, and the 6th is the first eligible on the team's side, for
\* a team that no earlier row lists on both sides.
C3_GateByHistoryEntries ==
  /\ GateIff
  /\ \A idx \in 0..(Len(matches) - 1) :
       \A t \in {RowAt(idx).team1_name, RowAt(idx).team2_name} :
         ~MetItselfBefore(t, idx) =>
           /\ GetTotalMatches(PreState(idx).stats, t) = PriorMatches(t, idx)
           /\ YieldedRow(idx) => PriorMatches(t, idx) >= MIN_MATCHES
           /\ PriorMatches(t, idx) >= MIN_MATCHES
                => GetTotalMatches(PreState(idx).stats, t) >= MIN_MATCHES

\* C3 witness: the 6th match of two teams that never met themselves gave a row
\* and their first 5 gave none.
C3_Witness ==
  /\ Len(matches) = 6
  /\ ~MetItselfBefore(A, 6)
  /\ YieldedRow(5)
  /\ PriorMatches(B, 5) = MIN_MATCHES
  /\ skipped_min_matches = 5

\* C4 as claimed: in every feature row the win-rate and form features are the
\* tracker's get_win_rate (all, last 20, last 50) and get_recent_form (last
\* 10) on the state before the match, and the two differences are the
\* differences of those tracker values.
C4_WinRatesAreTrackerValues ==
  \A i \in 1..Len(features_list) :
    LET r == features_list[i]
        pre == PreState(r.match_id).stats
        t1 == RowAt(r.match_id).team1_name
        t2 == RowAt(r.match_id).team2_name
    IN /\ r.team1_wr_all = GetWinRate(pre, t1, None)
       /\ r.team2_wr_all = GetWinRate(pre, t2, None)
       /\ r.team1_wr_20 = GetWinRate(pre, t1, <<20>>)
       /\ r.team2_wr_20 = GetWinRate(pre, t2, <<20>>)
       /\ r.team1_wr_50 = GetWinRate(pre, t1, <<50>>)
       /\ r.team2_wr_50 = GetWinRate(pre, t2, <<50>>)
       /\ r.team1_form = GetRecentForm(pre, t1, 10)
       /\ r.team2_form = GetRecentForm(pre, t2, 10)
       /\ r.wr_diff_all = FracSub(GetWinRate(pre, t1, None),
                                  GetWinRate(pre, t2, None))
       /\ r.form_diff = FracSub(GetRecentForm(pre, t1, 10),
                                GetRecentForm(pre, t2, 10))

\* The outcomes of the history of team t, oldest first.
Outcomes(t) ==
  LET hist == Get(stats.history, t, <<>>) IN
  [j \in 1..Len(hist) |-> hist[j][2]]

\* C15: get_win_streak(entity) has the magnitude of the longest suffix of the
\* entity's history whose outcomes all equal the most recent outcome, is
\* positive after a win and negative after a loss, and is 0 if and only if
\* the entity has no history.
C15_WinStreak ==
  \A t \in StreamTeams :
    LET o == Outcomes(t)
        n == Len(o)
        streak == GetWinStreak(stats, t)
        k == Abs(streak)
    IN /\ (streak = 0) <=> (n = 0)
       /\ n > 0 =>
            /\ k \in 1..n
            /\ \A j \in (n - k + 1)..n : o[j] = o[n]
            /\ k < n => o[n - k] # o[n]
            /\ o[n] => streak > 0
            /\ ~o[n] => streak < 0

\* C15 witness: the results win, win, loss, win, win, win of one team give
\* the streak 3, and those of its opponent the streak -3.
C15_Witness ==
  /\ Outcomes(A) = <<TRUE, TRUE, FALSE, TRUE, TRUE, TRUE>>
  /\ GetWinStreak(stats, A) = 3
  /\ GetWinStreak(stats, B) = -3

\* The windows asked of get_win_rate: none, shorter than the histories of
\* the run, and longer.
Windows == {None, <<1>>, <<2>>, <<3>>, <<10>>, <<20>>, <<50>>}

RECURSIVE TierEntries(_, _, _)
TierEntries(rows, t, label) ==
  IF rows = <<>> THEN <<>>
  ELSE LET m == Head(rows)
           tier == TournamentField(m.tournament_pagename, "tier")
           under == tier # None /\ StrTier(tier) = label
       IN (IF under /\ m.team1_name = t
           THEN << <<m.date, m.team1_win = 1>> >> ELSE <<>>)
          \o (IF under /\ m.team2_name = t
              THEN << <<m.date, m.team1_win = 0>> >> ELSE <<>>)
          \o TierEntries(Tail(rows), t, label)

\* The tiers asked of get_tier_win_rate.
QueryTiers == {<<"float", 1>>, <<"int", 1>>, NaN, None}

\* C20: in every state, for every entity and tier label, tier_history of the
\* entity under that label holds exactly the entity's recorded matches whose
\* tier had that label, in recording order; matches recorded without a tier
\* are under no label; get_tier_win_rate(entity, tier) is the fraction of
\* wins among exactly those matches and None when there are none.
C20_TierHistory ==
  \A t \in StreamTeams :
    LET th == Get(stats.tier_history, t, EmptyDict) IN
    /\ \A label \in DOMAIN th \cup {StrTier(tier) : tier \in QueryTiers} :
         Get(th, label, <<>>) = TierEntries(matches, t, label)
    /\ \A tier \in QueryTiers :
         LET ent == TierEntries(matches, t, StrTier(tier))
             wins == Cardinality({j \in 1..Len(ent) : ent[j][2]})
         IN GetTierWinRate(stats, t, tier)
              = IF ent = <<>> THEN None ELSE Frac(wins, Len(ent))

\* C20 witness: a team played four matches, the first and the fourth in a
\* tournament of tier 1.0, and won one of those two; the second, recorded
\* without a tier, is under no label.
C20_Witness ==
  /\ Len(matches) = 4
  /\ Len(Get(stats.history, A, <<>>)) = 4
  /\ TournamentField(matches[2].tournament_pagename, "tier") = None
  /\ Len(TierEntries(matches, A, StrTier(<<"float", 1>>))) = 2
  /\ GetTierWinRate(stats, A, <<"float", 1>>) = Half
  /\ GetTierWinRate(stats, A, <<"int", 1>>) = None
  /\ \A label \in DOMAIN stats.tier_history[A] :
       Len(stats.tier_history[A][label]) < 3

\* The features extract_features can leave undefined, and the value the
\* claim gives each after the fill pass.
OptionalCols ==
  {"h2h_wr", "team1_tier_wr", "team2_tier_wr",
   "team1_days_since_last", "team2_days_since_last", "tier"}

NeutralOf(col) ==
  CASE col \in {"h2h_wr", "team1_tier_wr", "team2_tier_wr"} -> Half
    [] col \in {"team1_days_since_last", "team2_days_since_last"} -> <<30>>
    [] OTHER -> <<4>>

\* Row i of the feature matrix is row i of features_list with every
\* undefined feature replaced by its neutral value and nothing else changed.
FilledAsClaimed(i) ==
  LET raw == features_list[i]
      filled == df_features[i]
  IN /\ DOMAIN filled = DOMAIN raw
     /\ \A c \in OptionalCols :
          /\ filled[c] # None
          /\ filled[c] = IF raw[c] = None THEN NeutralOf(c) ELSE raw[c]
     /\ \A c \in DOMAIN raw \ OptionalCols : filled[c] = raw[c]
     /\ filled.log_prizepool = raw.log_prizepool

\* C23: after the fill pass no numeric feature of any row is undefined: an
\* undefined h2h_wr or tier win rate is 0.5, an undefined days-since-last is
\* 30, an undefined tier is 4 and the log_prizepool of an unknown prizepool
\* is 0.0; every value defined before the pass is unchanged, and the pass
\* changes neither the Elo nor the tracker state.
C23_FillPass ==
  /\ [](pc = "done" =>
          /\ Len(df_features) = Len(features_list)
          /\ \A i \in 1..Len(features_list) : FilledAsClaimed(i))
  /\ [][pc' = "done" => elo' = elo /\ stats' = stats]_vars

\* C23 witness: the pass filled the row of a first meeting in a tournament
\* without tier: h2h_wr and the tier win rates became 0.5 and the tier 4,
\* while the 0 days since the last match and the win rate, which were
\* defined, stayed.
C23_Witness ==
  /\ pc = "done"
  /\ \E i \in 1..Len(features_list) :
       /\ features_list[i].h2h_wr = None /\ df_features[i].h2h_wr = Half
       /\ features_list[i].tier = None /\ df_features[i].tier = <<4>>
       /\ features_list[i].team1_tier_wr = None
       /\ df_features[i].team1_tier_wr = Half
       /\ df_features[i].log_prizepool = 0
       /\ features_list[i].team1_days_since_last = <<0>>
       /\ df_features[i].team1_days_since_last = <<0>>
       /\ df_features[i].team1_wr_all = features_list[i].team1_wr_all

\* ------------------------------------------- TeamStatsTracker, used freely
\* A caller records matches in any order of dates, saves the tracker, and a
\* later process loads the file.
AB == <<"a", "|", "b">>
TrackerTeams == {A, AB}
TrackerDates == {<<1, 0>>, <<2, 1>>}
TrackerTiers == {None, <<"float", 1>>}

TrackerInit ==
  /\ pc = "open"
  /\ ingest = None
  /\ limiter = None
  /\ retry = None
  /\ elo = NewElo(32, 1500 * RatingScale)
  /\ stats = NewTracker
  /\ matches = <<>>
  /\ features_list = <<>>
  /\ skipped_min_matches = 0
  /\ df_features = None
  /\ elo_file = None
  /\ stats_file = None
  /\ elo2 = None
  /\ stats2 = None
  /\ call = None

\* stats.record_match(team1, team2, team1_win, date_str, tier)
TrackerRecord ==
  /\ pc = "open"
  /\ Len(matches) < MaxRecords
  /\ \E team1 \in TrackerTeams, team2 \in TrackerTeams, team1_win \in {0, 1},
        date_str \in TrackerDates, tier \in TrackerTiers :
       /\ stats' = RecordMatch(stats, team1, team2, team1_win, date_str, tier)
       /\ matches' = Append(matches,
                            [team1_name |-> team1, team2_name |-> team2,
                             team1_win |-> team1_win, date |-> date_str,
                             tier |-> tier])
  /\ UNCHANGED <<pc, elo, features_list, skipped_min_matches, df_features,
                 elo_file, stats_file, elo2, stats2, call,
                 limiter, retry, ingest>>

\* stats.save(filepath)
TrackerSave ==
  /\ pc = "open"
  /\ pc' = "saved"
  /\ stats_file' = StatsSave(stats)
  /\ UNCHANGED <<elo, stats, matches, features_list, skipped_min_matches,
                 df_features, elo_file, elo2, stats2, call,
                 limiter, retry, ingest>>

\* TeamStatsTracker.load(filepath)
TrackerLoad ==
  /\ pc = "saved"
  /\ pc' = "loaded"
  /\ stats2' = StatsLoad(stats_file)
  /\ UNCHANGED <<elo, stats, matches, features_list, skipped_min_matches,
                 df_features, elo_file, stats_file, elo2, call,
                 limiter, retry, ingest>>

TrackerNext == TrackerRecord \/ TrackerSave \/ TrackerLoad

SpecTracker == TrackerInit /\ [][TrackerNext]_vars

\* The answers of every query of the tracker s about the teams t and u, with
\* every window, tier and current date of the run.
QueryAnswers(s, t, u) ==
  [win_rate |-> [n \in {None, <<1>>, <<10>>, <<20>>, <<50>>} |->
                   GetWinRate(s, t, n)],
   recent_form |-> GetRecentForm(s, t, 10),
   win_streak |-> GetWinStreak(s, t),
   h2h_win_rate |-> GetH2HWinRate(s, t, u),
   tier_win_rate |-> [tier \in TrackerTiers \ {None} |->
                        GetTierWinRate(s, t, tier)],
   days_since |-> [d \in TrackerDates |-> GetDaysSinceLastMatch(s, t, d)],
   total_matches |-> GetTotalMatches(s, t)]

\* C6 as claimed: the tracker loaded from the file written by save answers
\* every query like the saved tracker, for every entity and pair present
\* before saving.
C6_RoundTripQueries ==
  pc = "loaded" =>
    \A t \in DOMAIN stats.history, u \in DOMAIN stats.history :
      QueryAnswers(stats2, t, u) = QueryAnswers(stats, t, u)

\* sum(record.values()) of the h2h record under key, 0 without a record.
H2HTotal(s, key) ==
  LET record == Get(s.h2h, key, EmptyDict) IN SumValues(record, DOMAIN record)

\* The recorded matches between t and u, in either order of the two.
MatchesBetween(t, u) ==
  Cardinality({j \in 1..Len(matches) :
                 \/ matches[j].team1_name = t /\ matches[j].team2_name = u
                 \/ matches[j].team1_name = u /\ matches[j].team2_name = t})

\* The step is a record_match call.
IsRecordStep == Len(matches') = Len(matches) + 1

\* In every state the h2h total of a pair is the number of matches recorded
\* between that pair.
H2HTotalIsMatchCount ==
  \A t \in TrackerTeams, u \in TrackerTeams :
    H2HTotal(stats, SortedPair(t, u)) = MatchesBetween(t, u)

\* C10 as claimed: each record_match(A, B, ...) raises get_total_matches of A
\* and of B by exactly 1 and the h2h total of their canonical pair by exactly
\* 1; the h2h total of a pair is the number of matches recorded between it.
C10_ExposureByOne ==
  /\ []H2HTotalIsMatchCount
  /\ [][IsRecordStep =>
          LET m == matches'[Len(matches')]
              key == SortedPair(m.team1_name, m.team2_name)
          IN /\ GetTotalMatches(stats', m.team1_name)
                  = GetTotalMatches(stats, m.team1_name) + 1
             /\ GetTotalMatches(stats', m.team2_name)
                  = GetTotalMatches(stats, m.team2_name) + 1
             /\ H2HTotal(stats', key) = H2HTotal(stats, key) + 1]_vars

\* C10 amended: the same for two different entities A and B; a record_match
\* that names one entity on both sides raises its get_total_matches by 2 and
\* the h2h total of its pair by 1.
C10_ExposureByOneDistinct ==
  /\ []H2HTotalIsMatchCount
  /\ [][IsRecordStep =>
          LET m == matches'[Len(matches')]
              key == SortedPair(m.team1_name, m.team2_name)
              up == IF m.team1_name = m.team2_name THEN 2 ELSE 1
          IN /\ GetTotalMatches(stats', m.team1_name)
                  = GetTotalMatches(stats, m.team1_name) + up
             /\ GetTotalMatches(stats', m.team2_name)
                  = GetTotalMatches(stats, m.team2_name) + up
             /\ H2HTotal(stats', key) = H2HTotal(stats, key) + 1
             /\ \A t \in TrackerTeams \ {m.team1_name, m.team2_name} :
                  GetTotalMatches(stats', t) = GetTotalMatches(stats, t)]_vars

\* C10 witness: two different teams met twice, once in each order.
C10_Witness ==
  /\ Len(matches) = 2
  /\ matches[1].team1_name = A /\ matches[1].team2_name = AB
  /\ matches[2].team1_name = AB /\ matches[2].team2_name = A
  /\ GetTotalMatches(stats, A) = 2
  /\ GetTotalMatches(stats, AB) = 2
  /\ H2HTotal(stats, <<A, AB>>) = 2

\* The float x + y of two quotients.
FracAdd(x, y) == Frac(x[1] * y[2] + y[1] * x[2], x[2] * y[2])

\* get_h2h_win_rate(t, u) + get_h2h_win_rate(u, t) = 1
H2HSumsToOne(t, u) ==
  LET tu == GetH2HWinRate(stats, t, u)
      ut == GetH2HWinRate(stats, u, t)
  IN tu # None /\ ut # None /\ FracAdd(tu, ut) = One

WinsOver(t, u) ==
  Cardinality({j \in 1..Len(matches) :
                 \/ /\ matches[j].team1_name = t /\ matches[j].team2_name = u
                    /\ matches[j].team1_win # 0
                 \/ /\ matches[j].team1_name = u /\ matches[j].team2_name = t
                    /\ matches[j].team1_win = 0})

\* C12: get_h2h_win_rate(A, B) is the number of recorded matches between A
\* and B that A won divided by the number of recorded matches between them,
\* whichever of the two was team1 in each record_match call and in the query;
\* it is None if and only if the two have never met.
C12_H2HWinRateValue ==
  \A t \in TrackerTeams, u \in TrackerTeams :
    LET n == MatchesBetween(t, u) IN
    /\ (GetH2HWinRate(stats, t, u) = None) <=> (n = 0)
    /\ n > 0 => GetH2HWinRate(stats, t, u) = Frac(WinsOver(t, u), n)

\* C12 witness: two teams met twice, once in each order of the call, and the
\* same team won both; its rate is 1 and the other's is 0 in both query
\* orders.
C12_Witness ==
  /\ Len(matches) = 2
  /\ matches[1].team1_name = A /\ matches[1].team2_name = AB
  /\ matches[1].team1_win = 0
  /\ matches[2].team1_name = AB /\ matches[2].team2_name = A
  /\ matches[2].team1_win = 1
  /\ GetH2HWinRate(stats, AB, A) = One
  /\ GetH2HWinRate(stats, A, AB) = Zero

\* The entries a record_match call m appends for team t, in call order.
NewEntries(m, t) ==
  (IF m.team1_name = t THEN << <<m.date, m.team1_win # 0>> >> ELSE <<>>)
  \o (IF m.team2_name = t THEN << <<m.date, m.team1_win = 0>> >> ELSE <<>>)

\* tier_history[t][label] of the tracker s, empty when missing.
TierHist(s, t, label) == Get(Get(s.tier_history, t, EmptyDict), label, <<>>)

\* Every tier label of the tracker s and of the tiers of the run.
TierLabels(s) ==
  {StrTier(tier) : tier \in TrackerTiers \ {None}}
  \cup UNION {DOMAIN s.tier_history[t] : t \in DOMAIN s.tier_history}

\* C19: no operation of the tracker removes or alters a history or
\* tier_history entry: across every record_match each entity's new history
\* is its previous history followed by the new entries, placed last whatever
\* their date; save changes nothing and load rebuilds the same lists.
C19_AppendOnly ==
  [][\A t \in TrackerTeams :
       /\ IF IsRecordStep
          THEN LET m == matches'[Len(matches')] IN
               /\ Get(stats'.history, t, <<>>)
                    = Get(stats.history, t, <<>>) \o NewEntries(m, t)
               /\ \A label \in TierLabels(stats) \cup TierLabels(stats') :
                    TierHist(stats', t, label)
                      = TierHist(stats, t, label)
                        \o (IF m.tier # None /\ StrTier(m.tier) = label
                            THEN NewEntries(m, t) ELSE <<>>)
          ELSE stats' = stats
       /\ pc' = "loaded" =>
            /\ Get(stats2'.history, t, <<>>) = Get(stats.history, t, <<>>)
            /\ \A label \in TierLabels(stats) \cup TierLabels(stats2') :
                 TierHist(stats2', t, label) = TierHist(stats, t, label)]_vars

\* C19 witness: a match dated day 2 was recorded before a match dated day 1
\* between the same teams; each history holds the two entries in the order
\* of the calls.
C19_Witness ==
  /\ Len(matches) = 2
  /\ matches[1].date = <<2, 1>> /\ matches[2].date = <<1, 0>>
  /\ matches[1].team1_name = A /\ matches[1].team2_name = AB
  /\ matches[2].team1_name = A /\ matches[2].team2_name = AB
  /\ matches[1].tier = <<"float", 1>> /\ matches[2].tier = <<"float", 1>>
  /\ stats.history[A][1][1] = <<2, 1>> /\ stats.history[A][2][1] = <<1, 0>>
  /\ stats.history[AB][1][1] = <<2, 1>> /\ stats.history[AB][2][1] = <<1, 0>>
  /\ TierHist(stats, A, StrTier(<<"float", 1>>)) = stats.history[A]

\* The indices of the record_match calls that name team t.
CallsOf(t) ==
  {j \in 1..Len(matches) :
     matches[j].team1_name = t \/ matches[j].team2_name = t}

\* The largest element of a non-empty set of integers.
Latest(S) == CHOOSE j \in S : \A k \in S : k <= j

\* C21: get_days_since_last_match(entity, asOfDate) is the number of calendar
\* days from the date part of the date of the entity's last recorded match
\* to the date part of asOfDate, the time of day of both being ignored; it
\* is None if the entity has no recorded match.
C21_DaysSinceLast ==
  \A t \in TrackerTeams, current_date \in TrackerDates :
    GetDaysSinceLastMatch(stats, t, current_date)
      = IF CallsOf(t) = {} THEN None
        ELSE <<current_date[1] - matches[Latest(CallsOf(t))].date[1]>>

\* C21 witness: the last recorded match of a team is dated day 2 at a later
\* time of day than the date asked, day 1: the answer is -1; asked for the
\* day of that match at an earlier time of day it is 0.
C21_Witness ==
  /\ Len(matches) = 2
  /\ matches[1].team1_name = A /\ matches[1].date = <<1, 0>>
  /\ matches[2].team2_name = A /\ matches[2].date = <<2, 1>>
  /\ GetDaysSinceLastMatch(stats, A, <<1, 0>>) = <<-1>>
  /\ GetDaysSinceLastMatch(stats, A, <<2, 1>>) = <<0>>

\* ----------------------------------------- extract_features, called directly
\* A caller absorbs a few matches into fresh models and calls
\* extract_features for a match of its choice, without the gate of
\* build_feature_matrix.
Pagenames == {"major", "qualifier", "open"}

ExtractInit ==
  /\ pc = "open"
  /\ ingest = None
  /\ limiter = None
  /\ retry = None
  /\ elo = NewElo(32, 1500 * RatingScale)
  /\ stats = NewTracker
  /\ matches = <<>>
  /\ features_list = <<>>
  /\ skipped_min_matches = 0
  /\ df_features = None
  /\ elo_file = None
  /\ stats_file = None
  /\ elo2 = None
  /\ stats2 = None
  /\ call = None

\* elo.update and stats.record_match for one more match.
ExtractAbsorb ==
  /\ pc = "open"
  /\ Len(matches) < MaxWarmup
  /\ \E res \in StreamResults :
       LET idx == Len(matches)
           tier == TournamentField(PagenameOfRow(idx), "tier")
       IN /\ elo' = EloUpdate(elo, res[1], res[2], res[3])
          /\ stats' = RecordMatch(stats, res[1], res[2], res[3],
                                  DateOfRow(idx), tier)
          /\ matches' = Append(matches,
                               [team1_name |-> res[1], team2_name |-> res[2],
                                team1_win |-> res[3], date |-> DateOfRow(idx),
                                tournament_pagename |-> PagenameOfRow(idx)])
  /\ UNCHANGED <<pc, features_list, skipped_min_matches, df_features,
                 elo_file, stats_file, elo2, stats2, call,
                 limiter, retry, ingest>>

\* feat = extract_features(elo, stats, team1, team2, date_str, tier, prizepool,
\* t_type) for a match on the next day of the calendar.
ExtractCall ==
  /\ pc = "open"
  /\ pc' = "called"
  /\ \E team1 \in StreamTeams, team2 \in StreamTeams, pn \in Pagenames :
       LET tier == TournamentField(pn, "tier")
           date_str == DateOfRow(Len(matches))
       IN /\ call' = [op |-> "extract_features", team1 |-> team1,
                      team2 |-> team2, date_str |-> date_str, tier |-> tier,
                      feat |-> ExtractFeatures(elo, stats, team1, team2,
                                 date_str, tier,
                                 TournamentField(pn, "prizepool"),
                                 TournamentField(pn, "type"))]
          /\ elo' = ExtractElo(elo, team1, team2)
  /\ UNCHANGED <<stats, matches, features_list, skipped_min_matches,
                 df_features, elo_file, stats_file, elo2, stats2,
                 limiter, retry, ingest>>

ExtractNext == ExtractAbsorb \/ ExtractCall

SpecExtract == ExtractInit /\ [][ExtractNext]_vars

\* C5 as claimed: in the vector extract_features returns, every feature whose
\* tracker query returns None is None; no default stands in for it.
C5_UndefinedStaysUndefined ==
  pc = "called" =>
    LET f == call.feat
        t1 == call.team1
        t2 == call.team2
        undef(q, v) == (q = None) => (v = None)
    IN /\ undef(GetWinRate(stats, t1, None), f.team1_wr_all)
       /\ undef(GetWinRate(stats, t2, None), f.team2_wr_all)
       /\ undef(GetWinRate(stats, t1, <<20>>), f.team1_wr_20)
       /\ undef(GetWinRate(stats, t2, <<20>>), f.team2_wr_20)
       /\ undef(GetWinRate(stats, t1, <<50>>), f.team1_wr_50)
       /\ undef(GetWinRate(stats, t2, <<50>>), f.team2_wr_50)
       /\ undef(GetRecentForm(stats, t1, 10), f.team1_form)
       /\ undef(GetRecentForm(stats, t2, 10), f.team2_form)
       /\ undef(GetH2HWinRate(stats, t1, t2), f.h2h_wr)
       /\ TierKnown(call.tier) =>
            /\ undef(GetTierWinRate(stats, t1, call.tier), f.team1_tier_wr)
            /\ undef(GetTierWinRate(stats, t2, call.tier), f.team2_tier_wr)
       /\ undef(GetDaysSinceLastMatch(stats, t1, call.date_str),
                f.team1_days_since_last)
       /\ undef(GetDaysSinceLastMatch(stats, t2, call.date_str),
                f.team2_days_since_last)

\* The entity t was passed to update and record_match.
Seen(t) ==
  \E j \in 1..Len(matches) :
    matches[j].team1_name = t \/ matches[j].team2_name = t

\* C13: for every entity never passed to update or record_match, get_rating
\* returns the default rating 1500, get_match_count, get_total_matches and
\* get_win_streak return 0, and get_win_rate, get_h2h_win_rate,
\* get_tier_win_rate and get_days_since_last_match return None, whatever
\* their other arguments and whether or not get_rating was called before.
C13_UnseenDefaults ==
  \A t \in StreamTeams \cup {C} :
    ~Seen(t) =>
      /\ RatingOf(elo, t) = 1500 * RatingScale
      /\ CountOf(elo, t) = 0
      /\ GetTotalMatches(stats, t) = 0
      /\ GetWinStreak(stats, t) = 0
      /\ \A n \in {None, <<1>>, <<10>>, <<20>>, <<50>>} :
           GetWinRate(stats, t, n) = None
      /\ \A u \in StreamTeams \cup {C} :
           /\ GetH2HWinRate(stats, t, u) = None
           /\ GetH2HWinRate(stats, u, t) = None
      /\ \A tier \in {<<"float", 1>>, <<"int", 1>>, NaN, None} :
           GetTierWinRate(stats, t, tier) = None
      /\ \A idx \in 0..MaxWarmup :
           GetDaysSinceLastMatch(stats, t, DateOfRow(idx)) = None

\* C13 witness: after two matches of A against itself, extract_features was
\* called for A against B, which no match names; its get_rating(B) left B
\* in the ratings map.
C13_Witness ==
  /\ pc = "called"
  /\ Len(matches) = 2
  /\ Seen(A) /\ ~Seen(B)
  /\ call.team1 = A /\ call.team2 = B
  /\ B \in DOMAIN elo.ratings
  /\ call.feat.team2_elo = 1500 * RatingScale

\* ------------------------------------------------- predict on built models
\* A few matches are absorbed into fresh models as build_feature_matrix
\* absorbs them; then predict builds the vector of a match of today, and the
\* same match is given to extract_features and the fill pass.
PredictTiers == {<<"int", 1>>, <<"float", 1>>}
PredictTypes == {"Online", "Offline"}

PredictInit == ExtractInit

\* X = build_feature_vector(elo, stats, team1, team2, tier, prizepool, t_type)
PredictCall ==
  /\ pc = "open"
  /\ pc' = "predicted"
  /\ \E team1 \in StreamTeams, team2 \in StreamTeams, tier \in PredictTiers,
        t_type \in PredictTypes :
       LET today == DateOfRow(Len(matches))
           prizepool == <<"float", 1000>>
       IN /\ call' = [op |-> "build_feature_vector", team1 |-> team1,
                      team2 |-> team2, today |-> today, tier |-> tier,
                      vector |-> BuildFeatureVector(elo, stats, team1, team2,
                                   today, tier, prizepool, t_type),
                      filled |-> FillRow(ExtractFeatures(elo, stats, team1,
                                   team2, today, tier, prizepool, t_type))]
          /\ elo' = ExtractElo(elo, team1, team2)
  /\ UNCHANGED <<stats, matches, features_list, skipped_min_matches,
                 df_features, elo_file, stats_file, elo2, stats2,
                 limiter, retry, ingest>>

PredictNext == ExtractAbsorb \/ PredictCall

SpecPredict == PredictInit /\ [][PredictNext]_vars

\* C22 as claimed: for the same models, teams, date, tier, prizepool and
\* tournament type, build_feature_vector gives every feature of FEATURE_COLS
\* the value extract_features and the fill pass give it.
C22_SameVector ==
  pc = "predicted" =>
    \A c \in FEATURE_COLS : call.vector[c] = call.filled[c]

\* --------------------------------------------------- load_and_clean_data
\* A cell of the matches CSV is NaN when empty, else <<"int", n>> for a
\* number, a name, or a date string <<day, tod>>; NaT is the datetime that
\* pd.to_datetime(errors="coerce") gives a cell it cannot parse.
NaT == <<"NaT">>

\* pd.to_datetime(cell, errors="coerce")
ToDatetime(cell) ==
  IF cell # NaN /\ Len(cell) = 2 /\ cell[1] \in Nat THEN cell ELSE NaT

\* The four filters of load_and_clean_data on one row; a comparison of NaN
\* with `!=` is true.
Keeps(row) ==
  /\ row.winner_id # <<"int", 0>>
  /\ row.team1_score # <<"int", -1>> /\ row.team2_score # <<"int", -1>>
  /\ row.team1_name # NaN /\ row.team2_name # NaN
  /\ row.team1_name # <<>> /\ row.team2_name # <<>>
  /\ ToDatetime(row.date) # NaT

\* sort_values("date") without the sort: the rows in file order.
SortValuesFileOrder(rows) == {rows}

\* sort_values("date"): the rows in non-decreasing date order; quicksort is
\* not stable, so rows of one date come in any order.
SortValues(rows) ==
  {s \in {[i \in 1..Len(rows) |-> rows[p[i]]] :
            p \in Permutations(1..Len(rows))} :
     \A i \in 1..Len(s), j \in 1..Len(s) :
       i < j => DateLeq(s[i].date, s[j].date)}

\* load_and_clean_data: the frames df_matches it can return for a CSV.
LoadAndCleanData(csv) ==
  LET kept == SelectSeq(csv, Keeps)
      dated == [i \in 1..Len(kept) |->
                  [kept[i] EXCEPT !.date = ToDatetime(kept[i].date)]]
  IN SortValues(dated)

\* A row of the CSV as normalize_match wrote it, for a match of A against B
\* in the tournament "major": winner_id is the winning side, 0 for no
\* winner, NaN when the API gave none; team1_win is 1 when side 1 is the
\* winner; one cell may be defective.
CsvRow(winner_id, defect, day) ==
  [winner_id |-> winner_id,
   team1_win |-> IF winner_id = <<"int", 1>> THEN 1 ELSE 0,
   team1_score |-> IF defect = "score" THEN <<"int", -1>> ELSE <<"int", 2>>,
   team2_score |-> <<"int", 1>>,
   team1_name |-> IF defect = "name" THEN NaN ELSE A,
   team2_name |-> B,
   date |-> IF defect = "date" THEN NaN ELSE <<day, 0>>,
   tournament_pagename |-> "major"]

CsvRows ==
  {CsvRow(winner_id, defect, day) :
     winner_id \in {<<"int", 0>>, <<"int", 1>>, <<"int", 2>>, NaN},
     defect \in {"none", "score", "name", "date"},
     day \in {1, 2}}

LoadInit ==
  /\ pc = "csv"
  /\ ingest = None
  /\ limiter = None
  /\ retry = None
  /\ elo = NewElo(32, 1500 * RatingScale)
  /\ stats = NewTracker
  /\ matches = <<>>
  /\ features_list = <<>>
  /\ skipped_min_matches = 0
  /\ df_features = None
  /\ elo_file = None
  /\ stats_file = None
  /\ elo2 = None
  /\ stats2 = None
  /\ \E csv \in UNION {[1..n -> CsvRows] : n \in 0..MaxRows} :
       call = [op |-> "read_csv", csv |-> csv]

\* df_matches, tournament_info = load_and_clean_data()
LoadClean ==
  /\ pc = "csv"
  /\ pc' = "loop"
  /\ \E df \in LoadAndCleanData(call.csv) :
       call' = [op |-> "load_and_clean_data", csv |-> call.csv,
                df_matches |-> df]
  /\ UNCHANGED <<elo, stats, matches, features_list, skipped_min_matches,
                 df_features, elo_file, stats_file, elo2, stats2,
                 limiter, retry, ingest>>

\* The loop of build_feature_matrix takes the next row of df_matches.
LoadNextRow ==
  /\ pc = "loop"
  /\ Len(matches) < Len(call.df_matches)
  /\ LET idx == Len(matches)
         row == call.df_matches[idx + 1]
         b == LoopBody([elo |-> elo, stats |-> stats,
                        features_list |-> features_list,
                        skipped_min_matches |-> skipped_min_matches],
                       idx, row)
     IN /\ matches' = Append(matches, row)
        /\ elo' = b.elo
        /\ stats' = b.stats
        /\ features_list' = b.features_list
        /\ skipped_min_matches' = b.skipped_min_matches
  /\ UNCHANGED <<pc, df_features, elo_file, stats_file, elo2, stats2, call,
                 limiter, retry, ingest>>

LoadNext == LoadClean \/ LoadNextRow

SpecLoad == LoadInit /\ [][LoadNext]_vars

\* C24 as claimed: every match that reaches the loop of build_feature_matrix
\* has a determined winner, a name for both teams, a valid date and no score
\* of -1; a match whose winner is missing rather than 0 is removed as well.
C24_CleanStream ==
  pc = "loop" =>
    \A i \in 1..Len(call.df_matches) :
      LET row == call.df_matches[i] IN
      /\ row.winner_id \in {<<"int", 1>>, <<"int", 2>>}
      /\ row.team1_name \notin {NaN, <<>>}
      /\ row.team2_name \notin {NaN, <<>>}
      /\ row.date # NaT
      /\ row.team1_score # <<"int", -1>>
      /\ row.team2_score # <<"int", -1>>

\* The dates of a sequence of entries or rows never go back.
Chronological(dates) ==
  \A i \in 1..Len(dates), j \in 1..Len(dates) :
    i < j => DateLeq(dates[i], dates[j])

\* C25: build_feature_matrix absorbs the matches in non-decreasing date
\* order, so each entity's history is in chronological order and its last
\* match date is the latest of its dates at every point of the pass.
C25_ChronologicalPass ==
  /\ Chronological([i \in 1..Len(matches) |-> matches[i].date])
  /\ \A t \in DOMAIN stats.history :
       LET hist == stats.history[t] IN
       /\ Chronological([i \in 1..Len(hist) |-> hist[i][1]])
       /\ stats.last_match_date[t] = hist[Len(hist)][1]
       /\ \A i \in 1..Len(hist) :
            DateLeq(hist[i][1], stats.last_match_date[t])

\* C25 witness: the CSV lists a match of day 2 before a match of day 1; the
\* pass absorbed the match of day 1 first.
C25_Witness ==
  /\ pc = "loop"
  /\ Len(call.csv) = 2
  /\ call.csv[1].date = <<2, 0>> /\ call.csv[2].date = <<1, 0>>
  /\ Len(matches) = 2
  /\ matches[1].date = <<1, 0>> /\ matches[2].date = <<2, 0>>
  /\ stats.history[A][1][1] = <<1, 0>> /\ stats.history[A][2][1] = <<2, 0>>
  /\ stats.last_match_date[A] = <<2, 0>>

\* ------------------------------------------- predict.load_artifacts
\* The two state files were written by a build that absorbed one match; each
\* may since have been deleted, overwritten with text that is not JSON, or
\* stripped of some of its keys. predict loads both and queries the models.
SavedElo == EloSave(EloUpdate(NewElo(32, 1500 * RatingScale), A, B, 1))
SavedStats ==
  StatsSave(RecordMatch(NewTracker, A, B, 1, <<1, 0>>, <<"float", 1>>))

FilesOf(doc) ==
  {[exists |-> FALSE, json |-> FALSE, data |-> None],
   [exists |-> TRUE, json |-> FALSE, data |-> None]}
  \cup {[exists |-> TRUE, json |-> TRUE, data |-> [k \in K |-> doc[k]]] :
          K \in SUBSET DOMAIN doc}

ArtifactsInit ==
  /\ pc = "start"
  /\ ingest = None
  /\ limiter = None
  /\ retry = None
  /\ elo = NewElo(32, 1500 * RatingScale)
  /\ stats = NewTracker
  /\ matches = <<>>
  /\ features_list = <<>>
  /\ skipped_min_matches = 0
  /\ df_features = None
  /\ elo_file \in FilesOf(SavedElo)
  /\ stats_file \in FilesOf(SavedStats)
  /\ elo2 = None
  /\ stats2 = None
  /\ call = None

\* elo, stats, ... = load_artifacts(model_name): the Elo model is loaded
\* first, then the tracker; an error of either load leaves the function and,
\* nothing catching it, the process.
LoadArtifacts ==
  /\ pc = "start"
  /\ LET e == EloLoadFile(elo_file)
         s == StatsLoadFile(stats_file)
     IN IF "error" \in DOMAIN e
        THEN /\ pc' = "failed"
             /\ call' = [op |-> "EloRatingSystem.load", error |-> e.error]
             /\ UNCHANGED <<elo2, stats2>>
        ELSE IF "error" \in DOMAIN s
        THEN /\ pc' = "failed"
             /\ call' = [op |-> "TeamStatsTracker.load", error |-> s.error]
             /\ UNCHANGED <<elo2, stats2>>
        ELSE /\ pc' = "ready"
             /\ call' = [op |-> "load_artifacts"]
             /\ elo2' = e.model
             /\ stats2' = s.model
  /\ UNCHANGED <<elo, stats, matches, features_list, skipped_min_matches,
                 df_features, elo_file, stats_file,
                 limiter, retry, ingest>>

\* predict goes on with the loaded models: stats.get_total_matches(team) and
\* elo.get_rating(team).
ArtifactsQuery ==
  /\ pc = "ready"
  /\ pc' = "answered"
  /\ \E team \in {A, B, C} :
       /\ call' = [op |-> "predict", team |-> team,
                   count |-> GetTotalMatches(stats2, team),
                   rating |-> RatingOf(elo2, team)]
       /\ elo2' = TouchRating(elo2, team)
  /\ UNCHANGED <<elo, stats, matches, features_list, skipped_min_matches,
                 df_features, elo_file, stats_file, stats2,
                 limiter, retry, ingest>>

ArtifactsNext == LoadArtifacts \/ ArtifactsQuery

SpecArtifacts == ArtifactsInit /\ [][ArtifactsNext]_vars

\* The file holds the whole document that was saved.
Intact(file, doc) == file.exists /\ file.json /\ DOMAIN file.data = DOMAIN doc

\* The file can be loaded: it is JSON and holds the maps load reads with [].
Loadable(file, maps) ==
  file.exists /\ file.json /\ maps \subseteq DOMAIN file.data

\* C26: load on a missing file, on invalid JSON or on a document without a
\* required map fails with an error and returns no model, never an empty,
\* reset or partly filled one, and load_artifacts lets the error stop the
\* process: models exist only when both files were loadable, they hold what
\* the files hold, and nothing runs after a failure.
C26_LoadFailsHard ==
  /\ [](LET elo_ok == Loadable(elo_file, {"ratings", "match_counts"})
            stats_ok == Loadable(stats_file, {"history", "tier_history",
                                              "h2h", "last_match_date"})
        IN /\ pc \in {"ready", "answered"} <=>
                (pc # "start" /\ elo_ok /\ stats_ok)
           /\ pc = "failed" <=> (pc # "start" /\ ~(elo_ok /\ stats_ok))
           /\ pc = "failed" => elo2 = None /\ stats2 = None
           /\ pc = "ready" =>
                /\ elo2.ratings = elo_file.data.ratings
                /\ elo2.match_counts = elo_file.data.match_counts
                /\ stats2.history = stats_file.data.history
                /\ stats2.tier_history = stats_file.data.tier_history
                /\ stats2.last_match_date = stats_file.data.last_match_date
                /\ GetH2HWinRate(stats2, A, B) = One)
  /\ [][pc # "failed"]_vars

\* C26 witness: the Elo file was intact and the tracker file had lost its
\* "h2h" map only; the load failed with KeyError and no model exists.
C26_Witness ==
  /\ pc = "failed"
  /\ Intact(elo_file, SavedElo)
  /\ stats_file.exists /\ stats_file.json
  /\ DOMAIN stats_file.data = {"history", "tier_history", "last_match_date"}
  /\ call = [op |-> "TeamStatsTracker.load", error |-> "KeyError"]
  /\ elo2 = None /\ stats2 = None

\* ------------------------------------------- EloRatingSystem, used freely
\* A process builds a model, or resumes the model of an earlier run in which
\* A played 29 matches and B 30; it updates it, saves it, and a later process
\* loads the file; from then on both models take the same update calls.
EloTeams == {A, B}

EloStarts ==
  {[k_factor |-> k, default_rating |-> d * RatingScale,
    ratings |-> r.ratings, match_counts |-> r.match_counts] :
     k \in {32, 24}, d \in {1500, 1000},
     r \in {[ratings |-> EmptyDict, match_counts |-> EmptyDict],
            [ratings |-> Put(Put(EmptyDict, A, 1520 * RatingScale),
                             B, 1480 * RatingScale),
             match_counts |-> Put(Put(EmptyDict, A, 29), B, 30)]}}

EloInit ==
  /\ pc = "open"
  /\ ingest = None
  /\ limiter = None
  /\ retry = None
  /\ elo \in EloStarts
  /\ stats = NewTracker
  /\ matches = <<>>
  /\ features_list = <<>>
  /\ skipped_min_matches = 0
  /\ df_features = None
  /\ elo_file = None
  /\ stats_file = None
  /\ elo2 = None
  /\ stats2 = None
  /\ call = None

\* elo.update(team1, team2, team1_win), on the loaded model too once there
\* is one.
EloUpdateCall ==
  /\ pc \in {"open", "loaded"}
  /\ Len(matches) < MaxUpdates
  /\ \E team1 \in EloTeams, team2 \in EloTeams, team1_win \in {0, 1} :
       /\ elo' = EloUpdate(elo, team1, team2, team1_win)
       /\ elo2' = IF pc = "loaded"
                  THEN EloUpdate(elo2, team1, team2, team1_win) ELSE elo2
       /\ matches' = Append(matches,
                            [team1_name |-> team1, team2_name |-> team2,
                             team1_win |-> team1_win])
  /\ UNCHANGED <<pc, stats, features_list, skipped_min_matches, df_features,
                 elo_file, stats_file, stats2, call,
                 limiter, retry, ingest>>

\* elo.get_rating(team), on the loaded model too once there is one.
EloGetRating ==
  /\ pc \in {"open", "loaded"}
  /\ \E team \in EloTeams \cup {C} :
       /\ call' = [op |-> "get_rating", team |-> team,
                   result |-> RatingOf(elo, team)]
       /\ elo' = TouchRating(elo, team)
       /\ elo2' = IF pc = "loaded" THEN TouchRating(elo2, team) ELSE elo2
  /\ UNCHANGED <<pc, stats, matches, features_list, skipped_min_matches,
                 df_features, elo_file, stats_file, stats2,
                 limiter, retry, ingest>>

\* elo.save(filepath)
EloSaveCall ==
  /\ pc = "open"
  /\ pc' = "saved"
  /\ elo_file' = EloSave(elo)
  /\ UNCHANGED <<elo, stats, matches, features_list, skipped_min_matches,
                 df_features, stats_file, elo2, stats2, call,
                 limiter, retry, ingest>>

\* EloRatingSystem.load(filepath)
EloLoadCall ==
  /\ pc = "saved"
  /\ pc' = "loaded"
  /\ elo2' = EloLoad(elo_file)
  /\ UNCHANGED <<elo, stats, matches, features_list, skipped_min_matches,
                 df_features, elo_file, stats_file, stats2, call,
                 limiter, retry, ingest>>

EloNext == EloUpdateCall \/ EloGetRating \/ EloSaveCall \/ EloLoadCall

SpecElo == EloInit /\ [][EloNext]_vars

\* C7: once loaded from the saved file, and after any further update calls
\* made on both, the loaded model has the k_factor and default_rating of the
\* saved one and gives the same get_rating and get_match_count for every
\* entity, persisted or not.
C7_EloRoundTrip ==
  pc = "loaded" =>
    /\ elo2.k_factor = elo.k_factor
    /\ elo2.default_rating = elo.default_rating
    /\ \A t \in EloTeams \cup {C} :
         /\ RatingOf(elo2, t) = RatingOf(elo, t)
         /\ CountOf(elo2, t) = CountOf(elo, t)

\* C7 witness: a model whose constants are not the constructor's defaults was
\* saved with an entity missing from the file, loaded, and then updated for
\* an entity past its 30th match.
C7_Witness ==
  /\ pc = "loaded"
  /\ elo.k_factor = 24
  /\ elo.default_rating = 1000 * RatingScale
  /\ C \notin DOMAIN elo_file.ratings
  /\ CountOf(elo_file, B) = 30
  /\ CountOf(elo2, B) = 32

\* The step is an update call.
IsUpdateStep == Len(matches') = Len(matches) + 1

OthersUnchanged(t1, t2) ==
  /\ \A t \in (EloTeams \cup {C}) \ {t1, t2} :
       /\ RatingOf(elo', t) = RatingOf(elo, t)
       /\ CountOf(elo', t) = CountOf(elo, t)
  /\ DOMAIN elo'.ratings = DOMAIN elo.ratings \cup {t1, t2}
  /\ DOMAIN elo'.match_counts = DOMAIN elo.match_counts \cup {t1, t2}

\* C18 as claimed: update(A, B, aWon) increases get_match_count(A) and
\* get_match_count(B) by exactly 1 each and leaves the rating and match
\* count of every other entity unchanged.
C18_UpdateFrame ==
  [][IsUpdateStep =>
       LET m == matches'[Len(matches')]
           t1 == m.team1_name
           t2 == m.team2_name
       IN /\ CountOf(elo', t1) = CountOf(elo, t1) + 1
          /\ CountOf(elo', t2) = CountOf(elo, t2) + 1
          /\ OthersUnchanged(t1, t2)]_vars

\* C18 amended: the same for two different entities A and B; an update that
\* names one entity on both sides increases its get_match_count by 2.
C18_UpdateFrameDistinct ==
  [][IsUpdateStep =>
       LET m == matches'[Len(matches')]
           t1 == m.team1_name
           t2 == m.team2_name
           up == IF t1 = t2 THEN 2 ELSE 1
       IN /\ CountOf(elo', t1) = CountOf(elo, t1) + up
          /\ CountOf(elo', t2) = CountOf(elo, t2) + up
          /\ OthersUnchanged(t1, t2)]_vars

\* C18 witness: get_rating put C in the ratings map, then an update of A
\* against B raised their match counts from 29 and 30 and left C at the
\* default rating with no match.
C18_Witness ==
  /\ Len(matches) = 1
  /\ matches[1].team1_name = A /\ matches[1].team2_name = B
  /\ CountOf(elo, A) = 30 /\ CountOf(elo, B) = 31
  /\ C \in DOMAIN elo.ratings
  /\ elo.ratings[C] = elo.default_rating
  /\ CountOf(elo, C) = 0

\* --------------------------------------- inference queries on a loaded model
\* A process loads the file of a saved model and only queries it: get_rating
\* and get_match_count for entities in the file and for one that is not.
ReadsInit ==
  /\ pc = "loaded"
  /\ ingest = None
  /\ limiter = None
  /\ retry = None
  /\ elo \in EloStarts
  /\ elo_file = EloSave(elo)
  /\ elo2 = EloLoad(elo_file)
  /\ stats = NewTracker
  /\ matches = <<>>
  /\ features_list = <<>>
  /\ skipped_min_matches = 0
  /\ df_features = None
  /\ stats_file = None
  /\ stats2 = None
  /\ call = None

\* elo.get_rating(team_name) on the loaded model
ReadGetRating ==
  /\ pc = "loaded"
  /\ \E team \in EloTeams \cup {C} :
       /\ call' = [op |-> "get_rating", team |-> team,
                   result |-> RatingOf(elo2, team)]
       /\ elo2' = TouchRating(elo2, team)
  /\ UNCHANGED <<pc, elo, stats, matches, features_list, skipped_min_matches,
                 df_features, elo_file, stats_file, stats2,
                 limiter, retry, ingest>>

\* elo.get_match_count(team_name) on the loaded model
ReadGetMatchCount ==
  /\ pc = "loaded"
  /\ \E team \in EloTeams \cup {C} :
       /\ call' = [op |-> "get_match_count", team |-> team,
                   result |-> CountOf(elo2, team)]
       /\ elo2' = TouchCount(elo2, team)
  /\ UNCHANGED <<pc, elo, stats, matches, features_list, skipped_min_matches,
                 df_features, elo_file, stats_file, stats2,
                 limiter, retry, ingest>>

ReadsNext == ReadGetRating \/ ReadGetMatchCount

SpecReads == ReadsInit /\ [][ReadsNext]_vars

\* C14 as claimed: get_rating and get_match_count are pure reads; after a
\* call for any entity, seen or unseen, the ratings and match_counts maps of
\* the model and the content save would write are the same as before it.
C14_PureReads ==
  [][/\ elo2'.ratings = elo2.ratings
     /\ elo2'.match_counts = elo2.match_counts
     /\ EloSave(elo2') = EloSave(elo2)]_vars

\* ------------------------------------------------ head-to-head keys on file
\* Two matches between entities of any name are recorded; save writes the key
\* of each pair and load decodes what was written.
KeyAlphabet == {"a", "|"}
KeyNames == UNION {[1..n -> KeyAlphabet] : n \in 1..MaxNameLen}

KeyInit ==
  /\ pc = "recorded"
  /\ ingest = None
  /\ limiter = None
  /\ retry = None
  /\ elo = NewElo(32, 1500 * RatingScale)
  /\ stats = NewTracker
  /\ matches = <<>>
  /\ features_list = <<>>
  /\ skipped_min_matches = 0
  /\ df_features = None
  /\ elo_file = None
  /\ stats_file = None
  /\ elo2 = None
  /\ stats2 = None
  /\ \E t1 \in KeyNames, t2 \in KeyNames, u1 \in KeyNames, u2 \in KeyNames :
       call = [op |-> "record_match",
               keys |-> <<SortedPair(t1, t2), SortedPair(u1, u2)>>]

\* save: the h2h keys as written to the file.
KeySave ==
  /\ pc = "recorded"
  /\ pc' = "saved"
  /\ call' = [op |-> "save", keys |-> call.keys,
              written |-> <<JoinKey(call.keys[1]), JoinKey(call.keys[2])>>]
  /\ UNCHANGED <<elo, stats, matches, features_list, skipped_min_matches,
                 df_features, elo_file, stats_file, elo2, stats2,
                 limiter, retry, ingest>>

\* load: the h2h keys rebuilt from the file.
KeyLoad ==
  /\ pc = "saved"
  /\ pc' = "loaded"
  /\ call' = [op |-> "load", keys |-> call.keys, written |-> call.written,
              decoded |-> <<SplitKey(call.written[1]),
                            SplitKey(call.written[2])>>]
  /\ UNCHANGED <<elo, stats, matches, features_list, skipped_min_matches,
                 df_features, elo_file, stats_file, elo2, stats2,
                 limiter, retry, ingest>>

KeyNext == KeySave \/ KeyLoad

SpecKey == KeyInit /\ [][KeyNext]_vars

\* C8 as claimed: load decodes each written key to the sorted pair that
\* record_match and get_h2h_win_rate use, and two different pairs are never
\* written as the same string.
C8_KeyRoundTrip ==
  /\ pc = "loaded" => call.decoded = call.keys
  /\ pc \in {"saved", "loaded"} =>
       (call.keys[1] # call.keys[2] => call.written[1] # call.written[2])

\* ------------------------------------------ RateLimiter, called by threads
\* One limiter is shared by the threads; each calls wait_if_needed again and
\* again, and get_stats is asked between the calls. The limits are those of
\* test_rate_limiter (3 requests in 3 s) and a pair with a longer interval.
Threads == {1, 2}
LimiterStrategies == {"distributed", "burst"}
LimiterLimits == {<<3, 3>>, <<2, 4>>}

LimiterInit ==
  /\ pc = "serving"
  /\ ingest = None
  /\ elo = NewElo(32, 1500 * RatingScale)
  /\ stats = NewTracker
  /\ matches = <<>>
  /\ features_list = <<>>
  /\ skipped_min_matches = 0
  /\ df_features = None
  /\ elo_file = None
  /\ stats_file = None
  /\ elo2 = None
  /\ stats2 = None
  /\ call = None
  /\ retry = None
  /\ \E limits \in LimiterLimits, strategy \in LimiterStrategies :
       limiter = NewRun(NewLimiter(limits[1], limits[2], strategy), Threads)

\* A thread calls wait_if_needed and waits for self._lock.
LimiterCall ==
  /\ limiter.calls < MaxCalls
  /\ \E t \in Threads :
       /\ limiter.thread[t].pc = "idle"
       /\ limiter' = [limiter EXCEPT !.calls = @ + 1,
                                     !.thread[t].pc = "lock"]
  /\ UNCHANGED <<pc, elo, stats, matches, features_list, skipped_min_matches,
                 df_features, elo_file, stats_file, elo2, stats2, call, retry, ingest>>

\* with self._lock: the thread gets the lock when no thread holds it.
LimiterEnter ==
  /\ limiter.lock = 0
  /\ \E t \in Threads :
       /\ limiter.thread[t].pc = "lock"
       /\ limiter' = Enter(limiter, t)
  /\ UNCHANGED <<pc, elo, stats, matches, features_list, skipped_min_matches,
                 df_features, elo_file, stats_file, elo2, stats2, call, retry, ingest>>

\* time.sleep(wait_time) of the distributed strategy returns, at wake or
\* later.
LimiterWakeInterval ==
  /\ \E t \in Threads :
       /\ limiter.thread[t].pc = "interval_sleep"
       /\ limiter.clock >= limiter.thread[t].wake
       /\ limiter' = AfterIntervalSleep(limiter, t)
  /\ UNCHANGED <<pc, elo, stats, matches, features_list, skipped_min_matches,
                 df_features, elo_file, stats_file, elo2, stats2, call, retry, ingest>>

\* time.sleep(wait_time) of the window limit returns, at wake or later.
LimiterWakeWindow ==
  /\ \E t \in Threads :
       /\ limiter.thread[t].pc = "window_sleep"
       /\ limiter.clock >= limiter.thread[t].wake
       /\ limiter' = AfterWindowSleep(limiter, t)
  /\ UNCHANGED <<pc, elo, stats, matches, features_list, skipped_min_matches,
                 df_features, elo_file, stats_file, elo2, stats2, call, retry, ingest>>

\* get_stats(), which takes the lock for its whole body.
LimiterGetStats ==
  /\ limiter.lock = 0
  /\ LET rl == RemoveOld(limiter.rl, limiter.clock)
     IN /\ limiter' = [limiter EXCEPT !.rl = rl]
        /\ call' = Stats(rl, limiter.clock)
  /\ UNCHANGED <<pc, elo, stats, matches, features_list, skipped_min_matches,
                 df_features, elo_file, stats_file, elo2, stats2, retry, ingest>>

\* The monotonic clock moves on.
LimiterTick ==
  /\ limiter.clock < MaxClock
  /\ limiter' = [limiter EXCEPT !.clock = @ + 1]
  /\ UNCHANGED <<pc, elo, stats, matches, features_list, skipped_min_matches,
                 df_features, elo_file, stats_file, elo2, stats2, call, retry, ingest>>

LimiterNext ==
  \/ LimiterCall
  \/ LimiterEnter
  \/ LimiterWakeInterval
  \/ LimiterWakeWindow
  \/ LimiterGetStats
  \/ LimiterTick

SpecLimiter == LimiterInit /\ [][LimiterNext]_vars

\* The requests granted so far whose time is time_from or later.
GrantedSince(time_from) ==
  {i \in DOMAIN limiter.granted : limiter.granted[i].time >= time_from}

\* Consecutive granted requests are window_seconds / max_requests apart or
\* more.
SpacedApart ==
  \A i \in 1..(Len(limiter.granted) - 1) :
    (limiter.granted[i + 1].time - limiter.granted[i].time)
      * limiter.rl.max_requests >= limiter.rl.window_seconds

\* C27: with the distributed strategy, any two consecutive requests granted
\* by wait_if_needed on one RateLimiter are at least
\* window_seconds / max_requests apart, and every get_stats reports as
\* requests_in_window the number of granted requests that are window_seconds
\* old or younger at its reading of the clock.
C27_SpacingAndStats ==
  /\ [](limiter.rl.strategy = "distributed" => SpacedApart)
  /\ [][LimiterGetStats =>
          call'.requests_in_window =
            Cardinality({i \in DOMAIN limiter'.granted :
                           limiter'.granted[i].time
                             >= call'.now - limiter'.rl.window_seconds})]_vars

\* Three requests were granted by the distributed limiter of 2 requests in 4
\* ticks, the first two exactly one interval apart, and get_stats, asked
\* when the first has left the window, counts the two others.
C27_Witness ==
  /\ limiter.rl.strategy = "distributed"
  /\ limiter.rl.max_requests = 2
  /\ Len(limiter.granted) = 3
  /\ limiter.granted[2].time - limiter.granted[1].time = 2
  /\ call # None
  /\ call.now = limiter.clock
  /\ call.requests_in_window = 2
  /\ Cardinality(GrantedSince(call.now - limiter.rl.window_seconds)) = 2

\* No more requests are tracked than max_requests.
TrackedWithinLimit ==
  Len(limiter.rl._request_times) <= limiter.rl.max_requests

\* No span of window_seconds that starts with a granted request holds more
\* than max_requests granted requests.
SpanWithinLimit ==
  \A i \in DOMAIN limiter.granted :
    Cardinality({j \in DOMAIN limiter.granted :
                   /\ limiter.granted[j].time >= limiter.granted[i].time
                   /\ limiter.granted[j].time
                        < limiter.granted[i].time + limiter.rl.window_seconds})
      <= limiter.rl.max_requests

\* C28: with either strategy, no more than max_requests requests are granted
\* within any span of window_seconds, and after every wait_if_needed the
\* number of tracked requests is at most max_requests.
C28_WindowLimit == TrackedWithinLimit /\ SpanWithinLimit

\* The threads that are inside the body of wait_if_needed.
InsideLock ==
  {t \in Threads : limiter.thread[t].pc \in {"interval_sleep", "window_sleep"}}

\* At most one thread is inside the locked body, and it is the holder of the
\* lock.
OneAtATime ==
  /\ Cardinality(InsideLock) <= 1
  /\ \A t \in InsideLock : limiter.lock = t
  /\ limiter.lock # 0 => limiter.lock \in InsideLock

\* The tracked request times are in non-decreasing order.
TrackedInOrder ==
  \A i \in 1..(Len(limiter.rl._request_times) - 1) :
    limiter.rl._request_times[i] <= limiter.rl._request_times[i + 1]

\* C29: when several threads call wait_if_needed on one RateLimiter, the
\* calls take effect one at a time: no two threads are inside the locked
\* body at once, the tracked times stay in non-decreasing order, and the
\* spacing and the window limits hold for the requests of all threads
\* together.
C29_ThreadsTogether ==
  /\ OneAtATime
  /\ TrackedInOrder
  /\ limiter.rl.strategy = "distributed" => SpacedApart
  /\ TrackedWithinLimit
  /\ SpanWithinLimit

\* --------------------------------------- a call of a wrapped function
\* wrapper(*args, **kwargs) of retry_with_backoff(max_retries): every
\* invocation of func ends, with any of its outcomes.
RetryInit ==
  /\ pc = "wrapped"
  /\ ingest = None
  /\ elo = NewElo(32, 1500 * RatingScale)
  /\ stats = NewTracker
  /\ matches = <<>>
  /\ features_list = <<>>
  /\ skipped_min_matches = 0
  /\ df_features = None
  /\ elo_file = None
  /\ stats_file = None
  /\ elo2 = None
  /\ stats2 = None
  /\ call = None
  /\ limiter = None
  /\ \E max_retries \in 0..MaxRetries : retry = NewWrapperCall(max_retries)

\* try: return func(*args, **kwargs), and the except clause that matches.
RetryInvoke ==
  /\ retry.pc = "invoke"
  /\ \E o \in FuncOutcomes, jitter \in {0, 1} :
       retry' = Invoke(retry, o, jitter)
  /\ UNCHANGED <<pc, elo, stats, matches, features_list, skipped_min_matches,
                 df_features, elo_file, stats_file, elo2, stats2, call,
                 limiter, ingest>>

\* time.sleep(delay) returns and the loop goes on.
RetrySleep ==
  /\ retry.pc = "sleep"
  /\ retry' = NextAttempt(retry)
  /\ UNCHANGED <<pc, elo, stats, matches, features_list, skipped_min_matches,
                 df_features, elo_file, stats_file, elo2, stats2, call,
                 limiter, ingest>>

RetryNext == RetryInvoke \/ RetrySleep

\* func and time.sleep return: a step that can be taken is taken.
SpecRetry == RetryInit /\ [][RetryNext]_vars /\ WF_vars(RetryNext)

\* The wrapper call is over.
Ended == retry.pc \in {"returned", "raised"}

\* Every invocation so far failed with a retryable error.
AllRetryable == \A i \in DOMAIN retry.outcomes : Retryable(retry.outcomes[i])

\* C30: a function wrapped by retry_with_backoff is invoked at most
\* max_retries + 1 times per call and the call always ends; the wrapper
\* returns the first successful result with no further invocation, and when
\* every attempt fails with a retryable error it raises NetworkException
\* after exactly max_retries + 1 invocations.
C30_BoundedRetries ==
  /\ [](/\ retry.invocations <= retry.max_retries + 1
        /\ retry.invocations = Len(retry.outcomes)
        /\ \A i \in DOMAIN retry.outcomes :
             retry.outcomes[i].kind = "return" =>
               /\ i = Len(retry.outcomes)
               /\ retry.pc = "returned"
               /\ retry.result = <<retry.outcomes[i].value>>
        /\ (Ended /\ AllRetryable) =>
             /\ retry.pc = "raised"
             /\ retry.raised = <<"NetworkException">>
             /\ retry.invocations = retry.max_retries + 1
        /\ retry.raised = <<"NetworkException">> =>
             retry.invocations = retry.max_retries + 1)
  /\ [][Ended => retry' = retry]_vars
  /\ <>Ended

\* With max_retries 2 the function failed with a retryable error twice and
\* then returned "y": the wrapper returned "y" after three invocations.
C30_Witness ==
  /\ retry.max_retries = 2
  /\ retry.pc = "returned"
  /\ retry.invocations = 3
  /\ retry.result = <<"y">>
  /\ Retryable(retry.outcomes[1])
  /\ Retryable(retry.outcomes[2])

\* The outcome is an HTTP error with a status that is 400, 401, 403 or 404 or
\* is outside retryable_status_codes.
FatalStatus(o) ==
  /\ o.kind = "HTTPError"
  /\ o.status # None
  /\ \/ o.status[1] \in NON_RETRYABLE_STATUS_CODES
     \/ o.status[1] \notin DEFAULT_RETRYABLE_STATUS_CODES

\* The outcome is an exception that is neither an HTTP error nor one of
\* retryable_exceptions.
OtherException(o) ==
  o.kind \notin ({"return", "HTTPError"} \cup RetryableExceptions)

\* C31: an HTTP error whose status is 400, 401, 403 or 404 or is outside
\* retryable_status_codes ends the wrapper call at once with APIException, an
\* exception that is neither an HTTP error nor in retryable_exceptions is
\* re-raised at once, and in both cases func is not invoked again.
C31_FailsAtOnce ==
  /\ [](\A i \in DOMAIN retry.outcomes :
          /\ FatalStatus(retry.outcomes[i]) =>
               /\ i = Len(retry.outcomes)
               /\ retry.pc = "raised"
               /\ retry.raised = <<"APIException">>
          /\ OtherException(retry.outcomes[i]) =>
               /\ i = Len(retry.outcomes)
               /\ retry.pc = "raised"
               /\ retry.raised = <<retry.outcomes[i].kind>>)
  /\ [][(retry.outcomes # <<>>
          /\ LET last == retry.outcomes[Len(retry.outcomes)]
             IN FatalStatus(last) \/ OtherException(last))
        => retry'.invocations = retry.invocations]_vars

\* After one retryable failure the function failed with HTTP 404: the call
\* ended with APIException after two of the three invocations allowed.
C31_Witness ==
  /\ retry.max_retries = 2
  /\ Len(retry.outcomes) = 2
  /\ retry.outcomes[1] = Raises("ConnectionError", None)
  /\ retry.outcomes[2] = Raises("HTTPError", <<404>>)
  /\ retry.raised = <<"APIException">>
  /\ retry.invocations = 2

\* ------------------------------------------- normalize_match on API matches
\* The matches the API can hand over. Each of the three identifier fields is
\* absent, empty or filled; the winner field is absent, a side (as string or
\* integer), "0", out of range or empty; the opponents carry their position,
\* a team identifier, or no id at all.
RawIds ==
  {<<a, b, c>> : a \in {None, StrVal(""), IntVal(0), StrVal("12345")},
                 b \in {None, StrVal(""), StrVal("67890")},
                 c \in {None, StrVal(""), StrVal("555")}}
RawWinners ==
  {None, StrVal("0"), StrVal("1"), StrVal("2"), IntVal(1), StrVal("3"),
   StrVal("")}
RawOpponentIds ==
  {<<StrVal("1"), StrVal("2")>>, <<IntVal(1), IntVal(2)>>,
   <<StrVal("team1"), StrVal("team2")>>, <<None, None>>,
   <<StrVal("1"), StrVal("1")>>}
RawShapes ==
  {"plain", "no list", "empty", "one", "not dict", "no name", "template",
   "bad date", "timed date", "no date", "bad score", "empty score"}

RawOpponent(id, name, shape) ==
  [dict |-> TRUE,
   id |-> id,
   name |-> IF shape \in {"no name", "template"} THEN None ELSE StrVal(name),
   template |-> IF shape = "template" THEN StrVal("tpl") ELSE None,
   score |-> CASE shape = "bad score" -> StrVal("W")
               [] shape = "empty score" -> StrVal("")
               [] OTHER -> StrVal("2")]

RawMatch(ids, winner, opponent_ids, shape) ==
  [match2id |-> ids[1],
   id |-> ids[2],
   match_id |-> ids[3],
   parent |-> StrVal("SomeEvent/2024"),
   date |-> CASE shape = "bad date" -> StrVal("15.01.2024")
              [] shape = "timed date" -> StrVal("2024-01-15 18:30:00")
              [] shape = "no date" -> None
              [] OTHER -> StrVal("2024-01-15"),
   extradata |-> IF shape = "plain" THEN [bestof |-> StrVal("3")] ELSE None,
   winner |-> winner,
   match2opponents |->
     [list |-> shape # "no list",
      items |->
        LET o1 == RawOpponent(opponent_ids[1], "Team A", shape)
            o2 == RawOpponent(opponent_ids[2], "Team B", shape)
        IN CASE shape \in {"no list", "empty"} -> <<>>
             [] shape = "one" -> <<o1>>
             [] shape = "not dict" -> <<o1, [o2 EXCEPT !.dict = FALSE]>>
             [] OTHER -> <<o1, o2>>]]

RawMatches ==
  {RawMatch(ids, winner, opponent_ids, shape) :
     ids \in RawIds, winner \in RawWinners, opponent_ids \in RawOpponentIds,
     shape \in RawShapes}

NormalizeInit ==
  /\ pc = "raw"
  /\ ingest = None
  /\ elo = NewElo(32, 1500 * RatingScale)
  /\ stats = NewTracker
  /\ matches = <<>>
  /\ features_list = <<>>
  /\ skipped_min_matches = 0
  /\ df_features = None
  /\ elo_file = None
  /\ stats_file = None
  /\ elo2 = None
  /\ stats2 = None
  /\ limiter = None
  /\ retry = None
  /\ \E m \in RawMatches : call = [op |-> "api", m |-> m]

\* result = normalize_match(m)
NormalizeCall ==
  /\ pc = "raw"
  /\ pc' = "normalized"
  /\ call' = [op |-> "normalize_match", m |-> call.m,
              errors |-> ValidateMatchData(call.m),
              result |-> NormalizeMatch(call.m)]
  /\ UNCHANGED <<elo, stats, matches, features_list, skipped_min_matches,
                 df_features, elo_file, stats_file, elo2, stats2, limiter,
                 retry, ingest>>

NormalizeNext == NormalizeCall

SpecNormalize == NormalizeInit /\ [][NormalizeNext]_vars

\* The first of match2id, id and match_id that the match holds.
FirstPresent(m) == PyOrPresent(PyOrPresent(m.match2id, m.id), m.match_id)

\* The first of match2id, id and match_id that is not empty.
FirstNonEmpty(m) ==
  IF Truthy(m.match2id) THEN m.match2id
  ELSE IF Truthy(m.id) THEN m.id ELSE m.match_id

Designates(m, i) ==
  /\ m.winner # None
  /\ m.match2opponents.items[i].id # None
  /\ PyStr(m.match2opponents.items[i].id) = PyStr(m.winner)

\* C39: for every match that normalize_match accepts, team1_win and team2_win
\* are never both 1; when the winner field designates one of the two
\* opponents, exactly the flag of that opponent is 1; a match with no winner
\* has both flags 0.
C39_WinFlags ==
  (pc = "normalized" /\ call.result # None) =>
    LET r == call.result
        m == call.m
    IN /\ ~(r.team1_win = 1 /\ r.team2_win = 1)
       /\ (Designates(m, 1) /\ ~Designates(m, 2)) =>
            (r.team1_win = 1 /\ r.team2_win = 0)
       /\ (Designates(m, 2) /\ ~Designates(m, 1)) =>
            (r.team1_win = 0 /\ r.team2_win = 1)
       /\ m.winner = None => (r.team1_win = 0 /\ r.team2_win = 0)

\* ------------------------------------------- fetch_all_cs2_tournaments, a run
\* The tournaments the API can list: by pagename, by tournament only (one of
\* them under the name of another's pagename), or with no identifier.
ApiTournaments ==
  {[pagename |-> StrVal("a"), tournament |-> None],
   [pagename |-> StrVal("b"), tournament |-> None],
   [pagename |-> StrVal("c"), tournament |-> None],
   [pagename |-> StrVal("d"), tournament |-> None],
   [pagename |-> None, tournament |-> StrVal("a")],
   [pagename |-> None, tournament |-> None]}
ApiPages == UNION {[1..n -> ApiTournaments] : n \in 0..PageLimit}

PaginateInit ==
  /\ pc = "fetching"
  /\ elo = NewElo(32, 1500 * RatingScale)
  /\ stats = NewTracker
  /\ matches = <<>>
  /\ features_list = <<>>
  /\ skipped_min_matches = 0
  /\ df_features = None
  /\ elo_file = None
  /\ stats_file = None
  /\ elo2 = None
  /\ stats2 = None
  /\ call = None
  /\ limiter = None
  /\ retry = None
  /\ ingest = NewPagination

\* while iteration < MAX_PAGINATION_ITERATIONS: one pass, whose fetch returns
\* a page or raises.
PaginatePass ==
  /\ ingest.pc = "while"
  /\ ingest.iteration < MAX_PAGINATION_ITERATIONS
  /\ \/ \E tournaments \in ApiPages :
          ingest' = PageFetched(ingest, tournaments)
     \/ \E exception \in {"APIException", "NetworkException"} :
          ingest' = PageFailed(ingest, exception)
  /\ UNCHANGED <<pc, elo, stats, matches, features_list, skipped_min_matches,
                 df_features, elo_file, stats_file, elo2, stats2, call,
                 limiter, retry>>

\* The loop condition fails.
PaginateExhausted ==
  /\ ingest.pc = "while"
  /\ ingest.iteration >= MAX_PAGINATION_ITERATIONS
  /\ ingest' = LoopExhausted(ingest)
  /\ UNCHANGED <<pc, elo, stats, matches, features_list, skipped_min_matches,
                 df_features, elo_file, stats_file, elo2, stats2, call,
                 limiter, retry>>

\* After the loop: PaginationException, or the list is returned.
PaginateAfter ==
  /\ ingest.pc = "after"
  /\ ingest' = AfterLoop(ingest)
  /\ UNCHANGED <<pc, elo, stats, matches, features_list, skipped_min_matches,
                 df_features, elo_file, stats_file, elo2, stats2, call,
                 limiter, retry>>

PaginateNext == PaginatePass \/ PaginateExhausted \/ PaginateAfter

\* Every fetch_tournaments call returns or raises: a step that can be taken
\* is taken.
SpecPaginate == PaginateInit /\ [][PaginateNext]_vars /\ WF_vars(PaginateNext)

\* C33: fetch_all_cs2_tournaments always ends after at most
\* MAX_PAGINATION_ITERATIONS page fetches, returns each tournament identifier
\* at most once, raises PaginationException only when the pagination did not
\* reach its end within that many iterations, and returns normally whenever
\* an empty page, a short page or an all-duplicate page ended the loop.
C33_PaginationEnds ==
  /\ [](/\ ingest.iteration <= MAX_PAGINATION_ITERATIONS
        /\ ingest.pc = "returned" =>
             \A i, j \in DOMAIN ingest.result :
               TournamentId(ingest.result[i]) = TournamentId(ingest.result[j])
                 => i = j
        /\ ingest.raised = <<"PaginationException">> =>
             ingest.ended_by = "iterations"
        /\ (ingest.pc \in {"returned", "raised"}
            /\ ingest.ended_by
                 \in {"empty page", "short page", "all duplicates"})
             => ingest.pc = "returned")
  /\ <>(ingest.pc \in {"returned", "raised"})

\* ------------------------------------- build_match_table, stopped and restarted
\* The tournaments file lists two pagenames, each once. The API answers a
\* query for a tournament with its matches (the same at every query, each
\* with that tournament as parent), of which normalize_match may refuse one,
\* or the fetch fails and gives the empty list.
ResumePagenames == <<<<"t", "1">>, <<"t", "2">>>>
ApiMatch(pagename, k, valid) ==
  [match_id |-> <<pagename, k>>, parent |-> pagename, valid |-> valid]
ApiAnswers(pagename) ==
  {<<>>,
   <<ApiMatch(pagename, 1, TRUE)>>,
   <<ApiMatch(pagename, 1, TRUE), ApiMatch(pagename, 2, TRUE)>>,
   <<ApiMatch(pagename, 1, FALSE), ApiMatch(pagename, 2, TRUE)>>,
   <<ApiMatch(pagename, 1, FALSE)>>}

ResumeInit ==
  /\ pc = "full history"
  /\ elo = NewElo(32, 1500 * RatingScale)
  /\ stats = NewTracker
  /\ matches = <<>>
  /\ features_list = <<>>
  /\ skipped_min_matches = 0
  /\ df_features = None
  /\ elo_file = None
  /\ stats_file = None
  /\ elo2 = None
  /\ stats2 = None
  /\ call = None
  /\ limiter = None
  /\ retry = None
  /\ ingest = [pc |-> "stopped", runs |-> 0, file |-> <<>>,
               all_matches_list |-> <<>>, tournaments_to_process |-> <<>>,
               i |-> 1, fetched |-> <<>>]

\* build_match_table() is started, for the first time or again.
ResumeStart ==
  /\ ingest.pc \in {"stopped", "returned", "raised"}
  /\ ingest.runs < MaxRuns
  /\ ingest' = StartRun(ingest, ResumePagenames)
  /\ UNCHANGED <<pc, elo, stats, matches, features_list, skipped_min_matches,
                 df_features, elo_file, stats_file, elo2, stats2, call,
                 limiter, retry>>

\* The next tournament is fetched, parsed and saved.
ResumeTournament ==
  /\ ingest.pc = "loop"
  /\ ingest.i <= Len(ingest.tournaments_to_process)
  /\ \E raw_matches \in ApiAnswers(ingest.tournaments_to_process[ingest.i]) :
       ingest' = ProcessTournament(ingest, raw_matches)
  /\ UNCHANGED <<pc, elo, stats, matches, features_list, skipped_min_matches,
                 df_features, elo_file, stats_file, elo2, stats2, call,
                 limiter, retry>>

\* The process is stopped while the checkpoint of the next tournament is
\* being written.
ResumeStoppedInWrite ==
  /\ ingest.pc = "loop"
  /\ ingest.i <= Len(ingest.tournaments_to_process)
  /\ \E raw_matches \in ApiAnswers(ingest.tournaments_to_process[ingest.i]) :
       LET done == ProcessTournament(ingest, raw_matches)
       IN /\ raw_matches # <<>>
          /\ \E left \in Truncations(done.all_matches_list) :
               ingest' = [done EXCEPT !.pc = "stopped", !.file = left]
  /\ UNCHANGED <<pc, elo, stats, matches, features_list, skipped_min_matches,
                 df_features, elo_file, stats_file, elo2, stats2, call,
                 limiter, retry>>

\* The process is stopped between two statements that write nothing.
ResumeStopped ==
  /\ ingest.pc = "loop"
  /\ ingest' = [ingest EXCEPT !.pc = "stopped"]
  /\ UNCHANGED <<pc, elo, stats, matches, features_list, skipped_min_matches,
                 df_features, elo_file, stats_file, elo2, stats2, call,
                 limiter, retry>>

\* The loop is over: the final table is saved, or there is none.
ResumeFinalize ==
  /\ ingest.pc = "loop"
  /\ ingest.i > Len(ingest.tournaments_to_process)
  /\ ingest' = Finalize(ingest)
  /\ UNCHANGED <<pc, elo, stats, matches, features_list, skipped_min_matches,
                 df_features, elo_file, stats_file, elo2, stats2, call,
                 limiter, retry>>

ResumeNext ==
  \/ ResumeStart
  \/ ResumeTournament
  \/ ResumeStoppedInWrite
  \/ ResumeStopped
  \/ ResumeFinalize

SpecResume == ResumeInit /\ [][ResumeNext]_vars

\* The match ids of the rows of the output file.
FileMatchIds == {ingest.file[i].match_id : i \in DOMAIN ingest.file}

\* No match stands in two rows of the output file.
NoMatchTwice ==
  \A i, j \in DOMAIN ingest.file :
    ingest.file[i].match_id = ingest.file[j].match_id => i = j

\* Every fetch was of a tournament that the output file of that moment did
\* not name.
NeverRefetched ==
  \A n \in DOMAIN ingest.fetched :
    ingest.fetched[n].pagename
      \notin ProcessedTournaments(ingest.fetched[n].file)

\* C34: in full-history mode, however often build_match_table is stopped and
\* started again, a tournament whose matches are already in the output file
\* is not fetched again, no tournament's matches are appended to the output
\* twice, and the checkpoint written after a tournament holds all matches
\* saved before it plus that tournament's matches.
C34_ResumeWithoutRepeats ==
  /\ [](NeverRefetched /\ NoMatchTwice)
  /\ [][ResumeTournament =>
          LET last == ingest'.fetched[Len(ingest'.fetched)]
          IN last.saved =>
               /\ Len(ingest'.file) >= Len(last.file)
               /\ SubSeq(ingest'.file, 1, Len(last.file)) = last.file
               /\ \A i \in (Len(last.file) + 1)..Len(ingest'.file) :
                    ingest'.file[i].tournament_pagename = last.pagename]_vars

\* ------------------------------------------- a fetch function under its decorator
FetchInit ==
  /\ pc = "fetch"
  /\ ingest = None
  /\ elo = NewElo(32, 1500 * RatingScale)
  /\ stats = NewTracker
  /\ matches = <<>>
  /\ features_list = <<>>
  /\ skipped_min_matches = 0
  /\ df_features = None
  /\ elo_file = None
  /\ stats_file = None
  /\ elo2 = None
  /\ stats2 = None
  /\ call = <<>>
  /\ limiter = None
  /\ retry = NewWrapperCall(FETCH_MAX_RETRIES)

\* The wrapper invokes the fetch function, whose request does o; call keeps
\* what the requests did.
FetchInvoke ==
  /\ retry.pc = "invoke"
  /\ \E o \in RequestOutcomes, jitter \in {0, 1} :
       /\ retry' = Invoke(retry, FetchBody(o), jitter)
       /\ call' = Append(call, o)
  /\ UNCHANGED <<pc, elo, stats, matches, features_list, skipped_min_matches,
                 df_features, elo_file, stats_file, elo2, stats2,
                 limiter, ingest>>

\* time.sleep(delay) returns and the loop goes on.
FetchSleep ==
  /\ retry.pc = "sleep"
  /\ retry' = NextAttempt(retry)
  /\ UNCHANGED <<pc, elo, stats, matches, features_list, skipped_min_matches,
                 df_features, elo_file, stats_file, elo2, stats2, call,
                 limiter, ingest>>

FetchNext == FetchInvoke \/ FetchSleep

SpecFetch == FetchInit /\ [][FetchNext]_vars /\ WF_vars(FetchNext)

\* The last request failed with a timeout or a connection error.
TimedOutOrUnconnected ==
  /\ call # <<>>
  /\ call[Len(call)].kind \in {"Timeout", "ConnectionError"}

\* C35: a request of fetch_matches or fetch_tournaments that fails with a
\* timeout or a connection error is retried with backoff: the failure is
\* reported to the caller only when the request was made max_retries + 1 = 4
\* times, and until then the wrapper sleeps and asks again.
C35_TimeoutRetried ==
  [](TimedOutOrUnconnected =>
       \/ retry.pc = "sleep" /\ retry.delay >= RETRY_BASE_DELAY
       \/ retry.pc = "raised" /\ retry.invocations = FETCH_MAX_RETRIES + 1)

\* ------------------------------------ build_feature_matrix: unknown tiers
\* The row the loop of build_feature_matrix took in this step.
RowTaken == matches'[Len(matches')]

\* C36: in build_feature_matrix a match whose tier is unknown, its
\* tournament absent from the lookup or the tournament's tier NaN, adds no
\* tier_history entry for either team: the step that takes such a row leaves
\* tier_history as it was.
C36_UnknownTierUnrecorded ==
  [][NextRow =>
       (~TierKnown(TournamentField(RowTaken.tournament_pagename, "tier"))
          => stats'.tier_history = stats.tier_history)]_vars

\* --------------------------- build_feature_matrix: the two counts of matches
\* C37: after any prefix of the build_feature_matrix pass, for every entity
\* the Elo model's get_match_count equals the tracker's get_total_matches,
\* so the adaptive step and the gate of MIN_MATCHES count the same matches.
C37_SameCounts ==
  \A t \in StreamTeams \cup {C} :
    CountOf(elo, t) = GetTotalMatches(stats, t)

\* C37 witness: after five rows, one of them listing A on both sides, A has
\* six matches in both counts and B four, and C none.
C37_Witness ==
  /\ Len(matches) = 5
  /\ \E i \in 1..5 : matches[i].team1_name = A /\ matches[i].team2_name = A
  /\ CountOf(elo, A) = 6 /\ GetTotalMatches(stats, A) = 6
  /\ CountOf(elo, B) = 4 /\ GetTotalMatches(stats, B) = 4
  /\ CountOf(elo, C) = 0

\* ------------------------------ build_feature_matrix: days since the last match
\* C38: in every feature row produced by build_feature_matrix, before the
\* fill pass, team1_days_since_last and team2_days_since_last are defined
\* and not negative.
C38_DaysDefined ==
  \A i \in DOMAIN features_list :
    /\ features_list[i].team1_days_since_last # None
    /\ features_list[i].team1_days_since_last[1] >= 0
    /\ features_list[i].team2_days_since_last # None
    /\ features_list[i].team2_days_since_last[1] >= 0

\* C38 witness: the sixth row, of day 3, is extracted for two teams that
\* both played last on day 3, and a row of day 3 for a team that played last
\* on day 2: 0 and 1 days.
C38_Witness ==
  /\ Len(matches) = 6
  /\ Len(features_list) >= 2
  /\ \E i \in DOMAIN features_list :
       features_list[i].team1_days_since_last = <<1>>
  /\ features_list[Len(features_list)].team1_days_since_last = <<0>>
  /\ features_list[Len(features_list)].team2_days_since_last = <<0>>

====
